---- MODULE Spec2Model ----
(***************************************************************************)
(* Model of the market-data aggregation and arbitrage-detection core of    *)
(* Telegram-Finbot: data_models.py (validation, scan, consolidation),      *)
(* websocket_client.py (subscriptions, push/poll transport),               *)
(* arbitrage_service.py and market_view_service.py (sessions and loops).   *)
(*                                                                         *)
(* Prices are exact integers (ticks); a percentage p is kept as the exact  *)
(* rational num/den, and "p >= t" is decided by cross-multiplication, so   *)
(* floating-point rounding is outside the model.  Times are seconds.       *)
(***************************************************************************)
EXTENDS Integers, Sequences, FiniteSets, TLC

\* ---------------------------------------------------------------- bounds
MaxPrice == 5          \* prices of the enumerated quotes are 1..MaxPrice
MaxExch == 3           \* longest snapshot map given to the pure functions
MaxTasks == 3          \* loop tasks alive at once, per service
MaxCallbacks == 2      \* callbacks registered on one key
MaxAttempts == 2       \* largest max_reconnect_attempts tried
TickStep == 30         \* seconds the clock advances at a time
MaxTime == 90          \* the clock stops here
ShortTime == 30        \* ... and here where both services run
MaxCalls == 1          \* refresh_market_view calls in flight at once
MaxUpdates == 2        \* updates one key's transport produces
MaxRequests == 3       \* HTTP requests one client issues
MaxClock == 4          \* time.time() stops here, in seconds
LongStep == 43200      \* seconds the clock advances at a time over days
LongTime == 180000     \* ... and where it stops
CleanupPeriod == 3600  \* the longest time between two cleanup passes allowed for

\* ------------------------------------------------------------- universes
Exchanges == <<"binance", "okx", "bybit">>
ExchangeSet == {Exchanges[i] : i \in 1..Len(Exchanges)}
BTC == "BTC/USDT"
ETH == "ETH/USDT"

\* thresholds (percent) given to the scan
ThresholdInputs == {0, 50, 100}

\* ------------------------------------------------------ float arithmetic
\* A float is either a number or NaN; every ordered comparison with NaN is
\* false, as in IEEE 754 / Python.
NaN == [nan |-> TRUE, v |-> 0]
Float(x) == [nan |-> FALSE, v |-> x]
FLe(a, b) == ~a.nan /\ ~b.nan /\ a.v <= b.v
FGe(a, b) == ~a.nan /\ ~b.nan /\ a.v >= b.v
FGt(a, b) == ~a.nan /\ ~b.nan /\ a.v > b.v
FLt(a, b) == ~a.nan /\ ~b.nan /\ a.v < b.v

\* An ask above every finite price: float('inf') in consolidate_bbo.
Infinity == 2147483647

\* Config.websocket_max_reconnect_attempts (config.py line 48)
websocket_max_reconnect_attempts == 10

VARIABLES
    \* --- harness of the pure functions of data_models.py
    arg_raw,            \* field values handed to MarketData(...)
    arg_market_data,    \* Dict[str, MarketData] in insertion order
    arg_threshold,      \* threshold_percentage
    arg_session,        \* the session handed to _should_send_update
    request,            \* frame of the GoMarketClient._make_request call
    start_call,         \* the start_monitoring call suspended in a subscribe send
    arg_data,           \* the ticker payload handed to _parse_ticker_data
    pacing,             \* clock, last_request_time, callers and issue times of _rate_limit
    inbound,            \* the latest message recv() returned, numbered
    invoked,            \* callbacks the latest _notify_callbacks invoked, in order
    update_seq,         \* key -> number of the latest update of its transport
    ret                 \* what the last call returned or raised

fnVars == <<arg_raw, arg_market_data, arg_threshold, arg_session, request, start_call, arg_data, pacing, inbound, invoked, update_seq, ret>>
fnArgs == <<arg_raw, arg_market_data, arg_threshold, arg_session, request, start_call, arg_data, pacing, inbound, invoked, update_seq>>

VARIABLES
    \* --- WebSocketClient / DataStreamManager (websocket_client.py)
    websocket,              \* self.websocket: "none", "open" or "closed"
    is_connected,
    is_running,
    use_polling,
    reconnect_count,
    max_reconnect_attempts, \* constructor argument
    start_pc,               \* where DataStreamManager.start() is
    subscriptions,          \* key -> list of callbacks
    polling_tasks,          \* key -> state of the poll_worker task
    active_streams,         \* DataStreamManager.active_streams (its keys)
    ws_sent                 \* bag of the messages the latest call handed to
                            \* websocket.send (message -> how many times)

wsFlags == <<websocket, is_connected, is_running, use_polling, reconnect_count,
             max_reconnect_attempts, start_pc>>
wsSubs == <<subscriptions, polling_tasks, active_streams, ws_sent>>

VARIABLES
    \* --- ArbitrageService (arbitrage_service.py)
    monitoring_sessions,        \* chat_id -> MonitoringConfig
    active_monitoring_tasks,    \* chat_id -> task
    monitoring_loop_tasks,      \* task -> the _monitoring_loop coroutine's frame
    arb_market_data_cache,      \* symbol -> snapshots in insertion order
    opportunity_history,
    alert_cooldowns,            \* opportunity key -> time of the last accepted alert
    arb_notifications           \* calls the notification callback got in the latest turn that made any

arbSess == <<monitoring_sessions, active_monitoring_tasks, monitoring_loop_tasks>>
arbOut == <<opportunity_history, alert_cooldowns, arb_notifications>>

VARIABLES
    \* --- MarketViewService (market_view_service.py)
    active_sessions,            \* chat_id -> MarketViewSession
    active_tasks,               \* chat_id -> task
    market_view_loop_tasks,     \* task -> the _market_view_loop coroutine's frame
    refresh_calls,              \* call -> frame of a refresh_market_view awaiting its tickers
    mv_market_data_cache,
    mv_notifications            \* calls the notification callback got in the latest turn that made any

mvSess == <<active_sessions, active_tasks, market_view_loop_tasks, refresh_calls>>
caches == <<arb_market_data_cache, mv_market_data_cache>>

VARIABLE now                    \* datetime.utcnow(), in seconds

sysVars == <<wsFlags, wsSubs, caches, arbSess, arbOut, mvSess, mv_notifications, now>>
vars == <<fnVars, sysVars>>

\* ------------------------------------------------- MarketData (lines 29-69)
\* MarketData.__post_init__: TRUE when construction raises ValueError.
MarketData__post_init__Raises(bid_price, bid_size, ask_price, ask_size) ==
    \/ FLe(bid_price, Float(0)) \/ FLe(ask_price, Float(0))
    \/ FLe(bid_size, Float(0)) \/ FLe(ask_size, Float(0))
    \/ FGe(bid_price, ask_price)

\* The five clauses of the MarketSnapshot invariant.
SnapshotClauses(bid_price, bid_size, ask_price, ask_size) ==
    /\ FGt(bid_price, Float(0)) /\ FGt(ask_price, Float(0))
    /\ FGt(bid_size, Float(0)) /\ FGt(ask_size, Float(0))
    /\ FLt(bid_price, ask_price)

\* MarketData(...): the constructed object, or the raised error.
MarketData(symbol, exchange, bid_price, bid_size, ask_price, ask_size) ==
    IF MarketData__post_init__Raises(bid_price, bid_size, ask_price, ask_size)
    THEN [raised |-> "ValueError"]
    ELSE [raised |-> "none", symbol |-> symbol, exchange |-> exchange,
          bid_price |-> bid_price, bid_size |-> bid_size,
          ask_price |-> ask_price, ask_size |-> ask_size]

\* A snapshot with numeric prices, as the services and the scan handle it.
Snapshot(symbol, exchange, bid, ask) ==
    [symbol |-> symbol, exchange |-> exchange, bid_price |-> bid, ask_price |-> ask]

\* The numeric quotes the exchanges send: those MarketData accepts.
Quotes ==
    {q \in (1..MaxPrice) \X (1..MaxPrice) :
        ~MarketData__post_init__Raises(Float(q[1]), Float(1), Float(q[2]), Float(1))}

\* -------------------------------- ArbitrageOpportunity (lines 121-141)
ArbitrageOpportunity__post_init__Raises(o) ==
    \/ o.buy_price <= 0 \/ o.sell_price <= 0
    \/ o.spread_percentage.num <= 0

\* --------------------------- find_arbitrage_opportunities (lines 313-353)
\* Mutant: the signal quotes the ask of the wrong exchange as its buy price.
ScanPairWrongSide(buy_data, sell_data, threshold_percentage) ==
    IF sell_data.ask_price < buy_data.bid_price
    THEN LET spread_absolute == buy_data.bid_price - sell_data.ask_price
             spread_percentage == [num |-> spread_absolute * 100,
                                   den |-> sell_data.ask_price]
         IN IF spread_percentage.num >= threshold_percentage * spread_percentage.den
            THEN << [symbol |-> buy_data.symbol,
                     buy_exchange |-> sell_data.exchange,
                     sell_exchange |-> buy_data.exchange,
                     buy_price |-> buy_data.ask_price,
                     sell_price |-> buy_data.bid_price,
                     spread_percentage |-> spread_percentage,
                     spread_absolute |-> spread_absolute,
                     timestamp |-> now] >>
            ELSE << >>
    ELSE << >>

\* The inner test and construction for the pair (exchanges[i], exchanges[j]), j > i.
ScanPair(buy_data, sell_data, threshold_percentage) ==
    IF sell_data.ask_price < buy_data.bid_price
    THEN LET spread_absolute == buy_data.bid_price - sell_data.ask_price
             \* spread_percentage = spread_absolute / sell_data.ask_price * 100
             spread_percentage == [num |-> spread_absolute * 100,
                                   den |-> sell_data.ask_price]
         IN IF spread_percentage.num >= threshold_percentage * spread_percentage.den
            THEN << [symbol |-> buy_data.symbol,
                     buy_exchange |-> sell_data.exchange,
                     sell_exchange |-> buy_data.exchange,
                     buy_price |-> sell_data.ask_price,
                     sell_price |-> buy_data.bid_price,
                     spread_percentage |-> spread_percentage,
                     spread_absolute |-> spread_absolute,
                     timestamp |-> now] >>
            ELSE << >>
    ELSE << >>

RECURSIVE ScanFrom(_, _, _, _)
ScanFrom(market_data, threshold_percentage, i, j) ==
    IF i > Len(market_data) THEN << >>
    ELSE IF j > Len(market_data)
         THEN ScanFrom(market_data, threshold_percentage, i + 1, i + 2)
         ELSE ScanPair(market_data[i], market_data[j], threshold_percentage)
              \o ScanFrom(market_data, threshold_percentage, i, j + 1)

find_arbitrage_opportunities(market_data, threshold_percentage) ==
    LET opportunities == ScanFrom(market_data, threshold_percentage, 1, 2)
    IN IF \E k \in 1..Len(opportunities) :
              ArbitrageOpportunity__post_init__Raises(opportunities[k])
       THEN [raised |-> "ValueError", opportunities |-> << >>]
       ELSE [raised |-> "none", opportunities |-> opportunities]

\* ---------------------------------------- consolidate_bbo (lines 356-400)
\* Mutant: the best ask is compared against the bid of the snapshot.
RECURSIVE BestOfBidForAsk(_, _, _)
BestOfBidForAsk(market_data, k, acc) ==
    IF k > Len(market_data) THEN acc
    ELSE LET data == market_data[k]
             a1 == [acc EXCEPT !.all_exchanges = Append(@, data.exchange)]
             a2 == IF data.bid_price > a1.best_bid_price
                   THEN [a1 EXCEPT !.best_bid_price = data.bid_price,
                                   !.best_bid_exchange = data.exchange]
                   ELSE a1
             a3 == IF data.bid_price < a2.best_ask_price
                   THEN [a2 EXCEPT !.best_ask_price = data.ask_price,
                                   !.best_ask_exchange = data.exchange]
                   ELSE a2
         IN BestOfBidForAsk(market_data, k + 1, a3)

\* Mutant: an equal price replaces the best kept so far.
RECURSIVE BestOfLastWins(_, _, _)
BestOfLastWins(market_data, k, acc) ==
    IF k > Len(market_data) THEN acc
    ELSE LET data == market_data[k]
             a1 == [acc EXCEPT !.all_exchanges = Append(@, data.exchange)]
             a2 == IF data.bid_price >= a1.best_bid_price
                   THEN [a1 EXCEPT !.best_bid_price = data.bid_price,
                                   !.best_bid_exchange = data.exchange]
                   ELSE a1
             a3 == IF data.ask_price <= a2.best_ask_price
                   THEN [a2 EXCEPT !.best_ask_price = data.ask_price,
                                   !.best_ask_exchange = data.exchange]
                   ELSE a2
         IN BestOfLastWins(market_data, k + 1, a3)

\* The loop over market_data.items() (lines 378-387).
RECURSIVE BestOf(_, _, _)
BestOf(market_data, k, acc) ==
    IF k > Len(market_data) THEN acc
    ELSE LET data == market_data[k]
             a1 == [acc EXCEPT !.all_exchanges = Append(@, data.exchange)]
             a2 == IF data.bid_price > a1.best_bid_price
                   THEN [a1 EXCEPT !.best_bid_price = data.bid_price,
                                   !.best_bid_exchange = data.exchange]
                   ELSE a1
             a3 == IF data.ask_price < a2.best_ask_price
                   THEN [a2 EXCEPT !.best_ask_price = data.ask_price,
                                   !.best_ask_exchange = data.exchange]
                   ELSE a2
         IN BestOf(market_data, k + 1, a3)

\* Mutant: a crossed or locked consolidated market is rejected, and the
\* spread is taken without its sign.
consolidate_bboUncrossed(symbol, market_data) ==
    IF Len(market_data) = 0
    THEN [raised |-> "ValueError"]
    ELSE LET b == BestOf(market_data, 1,
                     [best_bid_price |-> 0, best_bid_exchange |-> "",
                      best_ask_price |-> Infinity, best_ask_exchange |-> "",
                      all_exchanges |-> << >>])
             spread == IF b.best_ask_price >= b.best_bid_price
                       THEN b.best_ask_price - b.best_bid_price
                       ELSE b.best_bid_price - b.best_ask_price
         IN IF b.best_ask_price <= b.best_bid_price
            THEN [raised |-> "ValueError"]
            ELSE [raised |-> "none",
                  symbol |-> symbol,
                  best_bid_price |-> b.best_bid_price,
                  best_bid_exchange |-> b.best_bid_exchange,
                  best_ask_price |-> b.best_ask_price,
                  best_ask_exchange |-> b.best_ask_exchange,
                  mid_price_x2 |-> b.best_bid_price + b.best_ask_price,
                  spread_absolute |-> spread,
                  timestamp |-> now,
                  spread_percentage |-> [num |-> spread * 100, den |-> b.best_bid_price],
                  all_exchanges |-> b.all_exchanges]

\* ConsolidatedBBO.__post_init__ (lines 187-190) derives the spreads;
\* mid_price * 2 and the percentage are kept exact.
consolidate_bbo(symbol, market_data) ==
    IF Len(market_data) = 0
    THEN [raised |-> "ValueError"]
    ELSE LET b == BestOf(market_data, 1,
                     [best_bid_price |-> 0, best_bid_exchange |-> "",
                      best_ask_price |-> Infinity, best_ask_exchange |-> "",
                      all_exchanges |-> << >>])
         IN [raised |-> "none",
             symbol |-> symbol,
             best_bid_price |-> b.best_bid_price,
             best_bid_exchange |-> b.best_bid_exchange,
             best_ask_price |-> b.best_ask_price,
             best_ask_exchange |-> b.best_ask_exchange,
             mid_price_x2 |-> b.best_bid_price + b.best_ask_price,
             timestamp |-> now,              \* datetime.utcnow() (line 398)
             spread_absolute |-> b.best_ask_price - b.best_bid_price,
             spread_percentage |->
                 [num |-> (b.best_ask_price - b.best_bid_price) * 100,
                  den |-> b.best_bid_price],
             all_exchanges |-> b.all_exchanges]


\* ============================================================ the system
Owners == {1, 2}                           \* chat ids
SysExchanges == {"binance", "okx"}
Symbols == {BTC, ETH}
Key(exchange, symbol) == <<exchange, symbol>>   \* f"{exchange}:{symbol}"
Keys == SysExchanges \X Symbols

\* The bound methods registered as subscription callbacks.
ArbCallback == "ArbitrageService._market_data_callback"
MvCallback == "MarketViewService._market_data_callback"

Remove(f, k) == [x \in DOMAIN f \ {k} |-> f[x]]
Put(f, k, v) == [x \in DOMAIN f \cup {k} |-> IF x = k THEN v ELSE f[x]]
EmptyMap == [x \in {} |-> 0]

\* ------------------------------------------ WebSocketClient (lines 29-413)
\* The subscription state the subscribe / unsubscribe calls work on.
StreamState ==
    [subscriptions |-> subscriptions, polling_tasks |-> polling_tasks,
     active_streams |-> active_streams, sent |-> EmptyMap]

\* _start_polling (lines 225-264): one poll_worker task per key.
start_polling(st, k) ==
    IF k \in DOMAIN st.polling_tasks
    THEN st
    ELSE [st EXCEPT !.polling_tasks = Put(@, k, "running")]

\* The message _send_subscription_message builds (lines 203-208).
SubscriptionMessage(k) ==
    [action |-> "subscribe", exchange |-> k[1], symbol |-> k[2], type |-> "ticker"]

AddToBag(bag, m) == Put(bag, m, IF m \in DOMAIN bag THEN bag[m] + 1 ELSE 1)

\* _send_subscription_message (lines 197-223): nothing is sent without an
\* open websocket.
send_subscription_message(st, k) ==
    IF websocket = "open"
    THEN [st EXCEPT !.sent = AddToBag(@, SubscriptionMessage(k))]
    ELSE st

\* subscribe (lines 139-171)
subscribe(st, k, callback) ==
    LET st1 == [st EXCEPT !.subscriptions =
                   IF k \in DOMAIN @ THEN [@ EXCEPT ![k] = Append(@, callback)]
                   ELSE Put(@, k, <<callback>>)]
    IN IF use_polling THEN start_polling(st1, k)
       ELSE send_subscription_message(st1, k)

\* unsubscribe (lines 173-195): the key is deleted with all its callbacks and
\* its polling task is cancelled.
unsubscribe(st, k) ==
    IF k \in DOMAIN st.subscriptions
    THEN [st EXCEPT !.subscriptions = Remove(@, k),
                    !.polling_tasks = Remove(@, k)]
    ELSE st

\* DataStreamManager.subscribe_to_market_data (lines 439-461)
subscribe_to_market_data(st, k, callback) ==
    [subscribe(st, k, callback) EXCEPT !.active_streams = @ \cup {k}]

\* DataStreamManager.unsubscribe_from_market_data (lines 463-476)
unsubscribe_from_market_data(st, k) ==
    [unsubscribe(st, k) EXCEPT !.active_streams = @ \ {k}]

RECURSIVE SubscribeAll(_, _, _)
SubscribeAll(st, keys, callback) ==
    IF keys = << >> THEN st
    ELSE SubscribeAll(subscribe_to_market_data(st, Head(keys), callback),
                      Tail(keys), callback)

RECURSIVE UnsubscribeAll(_, _)
UnsubscribeAll(st, keys) ==
    IF keys = << >> THEN st
    ELSE UnsubscribeAll(unsubscribe_from_market_data(st, Head(keys)), Tail(keys))

\* The callback lists stay within the explored length.
CanSubscribe(keys) ==
    \A n \in 1..Len(keys) :
        keys[n] \in DOMAIN subscriptions => Len(subscriptions[keys[n]]) < MaxCallbacks

SetStreamState(st) ==
    /\ subscriptions' = st.subscriptions
    /\ polling_tasks' = st.polling_tasks
    /\ active_streams' = st.active_streams
    /\ ws_sent' = st.sent

\* A snapshot as the services cache it.
TimedSnapshot(symbol, exchange, q, t) ==
    [symbol |-> symbol, exchange |-> exchange,
     bid_price |-> q[1], ask_price |-> q[2], timestamp |-> t]

\* Mutant: the callback keeps the snapshot it already has for the exchange.
CachePutFirstWins(cache, md) ==
    LET entries == cache[md.symbol]
    IN [cache EXCEPT ![md.symbol] =
           IF \E i \in 1..Len(entries) : entries[i].exchange = md.exchange
           THEN entries
           ELSE Append(entries, md)]
\* _market_data_callback of either service (arbitrage_service.py 332-351,
\* market_view_service.py 430-449): latest-wins; a dict keeps the position of
\* a key that is overwritten.
CachePut(cache, md) ==
    LET entries == cache[md.symbol]
    IN [cache EXCEPT ![md.symbol] =
           IF \E i \in 1..Len(entries) : entries[i].exchange = md.exchange
           THEN [i \in 1..Len(entries) |->
                    IF entries[i].exchange = md.exchange THEN md ELSE entries[i]]
           ELSE Append(entries, md)]

\* _notify_callbacks (lines 266-284): every callback of the key is called.
notify_callbacks(k, md) ==
    LET callbacks == IF k \in DOMAIN subscriptions
                     THEN {subscriptions[k][i] : i \in 1..Len(subscriptions[k])}
                     ELSE {}
    IN /\ arb_market_data_cache' =
              IF ArbCallback \in callbacks THEN CachePut(arb_market_data_cache, md)
              ELSE arb_market_data_cache
       /\ mv_market_data_cache' =
              IF MvCallback \in callbacks THEN CachePut(mv_market_data_cache, md)
              ELSE mv_market_data_cache

\* connect() (lines 86-122): a failed websocket connect falls back to polling
\* and still reports success.
connect(ok) ==
    IF ok
    THEN /\ websocket' = "open"
         /\ is_connected' = TRUE
         /\ reconnect_count' = 0
         /\ use_polling' = FALSE
    ELSE /\ use_polling' = TRUE
         /\ UNCHANGED <<websocket, is_connected, reconnect_count>>

\* DataStreamManager.start (lines 430-433), first half: await connect().
manager_connect(ok) ==
    /\ start_pc = "idle"
    /\ connect(ok)
    /\ start_pc' = "connected"
    /\ UNCHANGED <<is_running, max_reconnect_attempts>>
    /\ UNCHANGED <<fnVars, wsSubs, caches, arbSess, arbOut, mvSess, mv_notifications, now>>

\* WebSocketClient.start (lines 347-375), up to the first recv().
start ==
    /\ start_pc = "connected"
    /\ is_running' = TRUE
    /\ start_pc' = IF use_polling THEN "returned"
                   ELSE IF is_connected THEN "recv" ELSE "returned"
    /\ UNCHANGED <<websocket, is_connected, use_polling, reconnect_count,
                   max_reconnect_attempts>>
    /\ UNCHANGED <<fnVars, wsSubs, caches, arbSess, arbOut, mvSess, mv_notifications, now>>

\* start(): one message received and handled (lines 360-361, 286-301).
recv_message(k, q) ==
    /\ start_pc = "recv"
    /\ is_running /\ is_connected
    /\ notify_callbacks(k, TimedSnapshot(k[2], k[1], q, now))
    /\ UNCHANGED <<fnVars, wsFlags, wsSubs, arbSess, arbOut, mvSess, mv_notifications, now>>

\* start(): recv() raises ConnectionClosed (closed) or another
\* WebSocketException, and _reconnect (lines 377-394) runs up to its sleep.
recv_error(closed) ==
    /\ start_pc = "recv"
    /\ websocket' = IF closed THEN "closed" ELSE websocket
    /\ IF reconnect_count >= max_reconnect_attempts
       THEN /\ use_polling' = TRUE
            /\ is_running' = TRUE
            /\ start_pc' = "returned"
            /\ UNCHANGED reconnect_count
       ELSE /\ reconnect_count' = reconnect_count + 1
            /\ start_pc' = "reconnecting"
            /\ UNCHANGED <<use_polling, is_running>>
    /\ UNCHANGED <<is_connected, max_reconnect_attempts>>
    /\ UNCHANGED <<fnVars, wsSubs, caches, arbSess, arbOut, mvSess, mv_notifications, now>>

\* _reconnect after its sleep (lines 396-400): connect() and one subscribe
\* message per subscribed key on the websocket it left; start() then leaves
\* its loop (break, lines 366/371).
reconnect(ok) ==
    /\ start_pc = "reconnecting"
    /\ connect(ok)
    /\ ws_sent' = IF websocket' = "open"
                  THEN [m \in {SubscriptionMessage(k) : k \in DOMAIN subscriptions} |-> 1]
                  ELSE EmptyMap
    /\ start_pc' = "returned"
    /\ UNCHANGED <<is_running, max_reconnect_attempts>>
    /\ UNCHANGED <<fnVars, subscriptions, polling_tasks, active_streams, caches, arbSess, arbOut, mvSess, mv_notifications, now>>

\* One turn of poll_worker (lines 232-254) for key k: the loop test, then
\* get_ticker (a snapshot, or an error that is logged) and the callbacks.
poll_worker(k, ticker) ==
    /\ k \in DOMAIN polling_tasks
    /\ polling_tasks[k] = "running"
    /\ IF is_running /\ k \in DOMAIN subscriptions
       THEN /\ IF ticker = << >>
               THEN UNCHANGED caches
               ELSE notify_callbacks(k, TimedSnapshot(k[2], k[1], ticker, now))
            /\ UNCHANGED polling_tasks
       ELSE /\ polling_tasks' = [polling_tasks EXCEPT ![k] = "done"]
            /\ UNCHANGED caches
    /\ UNCHANGED <<subscriptions, active_streams, ws_sent>>
    /\ UNCHANGED <<fnVars, wsFlags, arbSess, arbOut, mvSess, mv_notifications, now>>

\* ------------------------------------------ ArbitrageService (lines 26-599)
alert_cooldown_minutes == 1

MonitoringConfig(chat_id, symbols, exchanges, threshold_percentage, update_interval) ==
    [chat_id |-> chat_id, symbols |-> symbols, exchanges |-> exchanges,
     threshold_percentage |-> threshold_percentage, update_interval |-> update_interval]

\* The keys in the order _subscribe_to_symbols / _unsubscribe_from_symbols
\* visit them (lines 283-330): symbols outside, exchanges inside.
RECURSIVE SymbolKeys(_, _)
SymbolKeys(symbols, exchanges) ==
    IF symbols = << >> THEN << >>
    ELSE LET RECURSIVE OfSymbol(_)
             OfSymbol(n) ==
                 IF n > Len(exchanges) THEN << >>
                 ELSE <<Key(exchanges[n], Head(symbols))>> \o OfSymbol(n + 1)
         IN OfSymbol(1) \o SymbolKeys(Tail(symbols), exchanges)

\* asyncio.create_task: a task not yet known to the event loop.
NewTask(tasks) == CHOOSE t \in 1..MaxTasks : t \notin DOMAIN tasks

\* The frame of _monitoring_loop(chat_id, monitoring_config): the config
\* object it was given, whether that object is still the one registered in
\* monitoring_sessions, and when its sleep ends.
MonitoringLoopFrame(monitoring_config) ==
    [chat_id |-> monitoring_config.chat_id, monitoring_config |-> monitoring_config,
     registered |-> TRUE, until |-> now, caught |-> "none"]

\* MarketData.is_fresh (data_models.py lines 66-69)
is_fresh(data, max_age_seconds) == now - data.timestamp <= max_age_seconds

InList(x, list) == \E i \in 1..Len(list) : list[i] = x

\* Mutant: the operation looks the owner up without the membership test.
ReturnedKeyError(fn, chat_id, found) ==
    [fn |-> fn, chat_id |-> chat_id, raised |-> IF found THEN "none" ELSE "KeyError",
     found |-> found]

\* What a session operation hands back to its caller: it returns None, and
\* logs a warning when the owner has no session (found = FALSE).
Returned(fn, chat_id, found) ==
    [fn |-> fn, chat_id |-> chat_id, raised |-> "none", found |-> found]

\* start_monitoring (lines 67-108)
start_monitoring(monitoring_config) ==
    LET chat_id == monitoring_config.chat_id
    IN /\ IF chat_id \in DOMAIN monitoring_sessions
          THEN \* a new object replaces the registered one; the loop keeps its own
               /\ monitoring_sessions' =
                      [monitoring_sessions EXCEPT ![chat_id] = monitoring_config]
               /\ monitoring_loop_tasks' =
                      [t \in DOMAIN monitoring_loop_tasks |->
                          IF monitoring_loop_tasks[t].chat_id = chat_id
                          THEN [monitoring_loop_tasks[t] EXCEPT !.registered = FALSE]
                          ELSE monitoring_loop_tasks[t]]
               /\ UNCHANGED <<active_monitoring_tasks, wsSubs>>
          ELSE /\ \E t \in 1..MaxTasks : t \notin DOMAIN monitoring_loop_tasks
               /\ CanSubscribe(SymbolKeys(monitoring_config.symbols,
                                          monitoring_config.exchanges))
               /\ monitoring_sessions' = Put(monitoring_sessions, chat_id, monitoring_config)
               /\ LET task == NewTask(monitoring_loop_tasks)
                  IN /\ monitoring_loop_tasks' =
                            Put(monitoring_loop_tasks, task,
                                MonitoringLoopFrame(monitoring_config))
                     /\ active_monitoring_tasks' = Put(active_monitoring_tasks, chat_id, task)
               /\ SetStreamState(SubscribeAll(StreamState,
                      SymbolKeys(monitoring_config.symbols, monitoring_config.exchanges),
                      ArbCallback))
       /\ UNCHANGED <<fnVars, wsFlags, caches, arbOut, mvSess, mv_notifications, now>>

\* Mutant: the cancelled loop keeps running.
CancelNothing(tasks, task) == tasks

\* task.cancel(): the loop is suspended in a sleep or in the notifier, and
\* CancelledError ends it there.
Cancel(tasks, task) == Remove(tasks, task)

\* The service's sessions and tasks with the streams, as the body of
\* stop_monitoring works on them.
ArbState ==
    [monitoring_sessions |-> monitoring_sessions,
     active_monitoring_tasks |-> active_monitoring_tasks,
     monitoring_loop_tasks |-> monitoring_loop_tasks,
     stream |-> StreamState]
SetArbState(st) ==
    /\ monitoring_sessions' = st.monitoring_sessions
    /\ active_monitoring_tasks' = st.active_monitoring_tasks
    /\ monitoring_loop_tasks' = st.monitoring_loop_tasks
    /\ SetStreamState(st.stream)

\* The body of stop_monitoring (lines 117-137)
StopMonitoring(st, chat_id) ==
    IF chat_id \notin DOMAIN st.monitoring_sessions
    THEN st
    ELSE LET monitoring_config == st.monitoring_sessions[chat_id]
             has_task == chat_id \in DOMAIN st.active_monitoring_tasks
         IN [monitoring_sessions |-> Remove(st.monitoring_sessions, chat_id),
             active_monitoring_tasks |->
                 IF has_task THEN Remove(st.active_monitoring_tasks, chat_id)
                 ELSE st.active_monitoring_tasks,
             monitoring_loop_tasks |->
                 IF has_task
                 THEN Cancel(st.monitoring_loop_tasks, st.active_monitoring_tasks[chat_id])
                 ELSE st.monitoring_loop_tasks,
             stream |-> UnsubscribeAll(st.stream,
                            SymbolKeys(monitoring_config.symbols,
                                       monitoring_config.exchanges))]

\* stop_monitoring (lines 110-139)
stop_monitoring(chat_id) ==
    /\ SetArbState(StopMonitoring(ArbState, chat_id))
    /\ ret' = Returned("stop_monitoring", chat_id, chat_id \in DOMAIN monitoring_sessions)
    /\ UNCHANGED <<fnArgs, wsFlags, caches, arbOut, mvSess, mv_notifications, now>>

\* for task in ....values(): task.cancel()
RECURSIVE CancelAll(_, _)
CancelAll(tasks, cancelled) ==
    IF cancelled = {} THEN tasks
    ELSE LET task == CHOOSE t \in cancelled : TRUE
         IN CancelAll(Cancel(tasks, task), cancelled \ {task})

\* for chat_id in list(self.monitoring_sessions.keys()): stop_monitoring
RECURSIVE StopEachMonitoring(_, _)
StopEachMonitoring(st, chat_ids) ==
    IF chat_ids = {} THEN st
    ELSE LET chat_id == CHOOSE c \in chat_ids : \A other \in chat_ids : c <= other
         IN StopEachMonitoring(StopMonitoring(st, chat_id), chat_ids \ {chat_id})

\* ArbitrageService.shutdown (lines 587-599).  Neither stop_monitoring nor
\* the unsubscribe calls under it wait for anything, so it runs in one go.
arbitrage_shutdown ==
    /\ LET st == StopEachMonitoring(ArbState, DOMAIN monitoring_sessions)
           remaining == {st.active_monitoring_tasks[o] :
                            o \in DOMAIN st.active_monitoring_tasks}
       IN SetArbState([st EXCEPT !.monitoring_loop_tasks = CancelAll(@, remaining)])
    /\ ret' = Returned("ArbitrageService.shutdown", 0, monitoring_sessions # EmptyMap)
    /\ UNCHANGED <<fnArgs, wsFlags, caches, arbOut, mvSess, mv_notifications, now>>

\* setattr for every update whose key is an attribute (lines 186-188)
ApplyUpdates(current_config, config_updates) ==
    [key \in DOMAIN current_config |->
        IF key \in DOMAIN config_updates THEN config_updates[key]
        ELSE current_config[key]]

\* update_monitoring_config (lines 168-196): the registered object is
\* mutated; a loop sees it only if that is the object it holds.
update_monitoring_config(chat_id, config_updates) ==
    /\ IF chat_id \notin DOMAIN monitoring_sessions
       THEN UNCHANGED arbSess
       ELSE /\ monitoring_sessions' =
                   [monitoring_sessions EXCEPT ![chat_id] = ApplyUpdates(@, config_updates)]
            /\ monitoring_loop_tasks' =
                   [t \in DOMAIN monitoring_loop_tasks |->
                       IF /\ monitoring_loop_tasks[t].chat_id = chat_id
                          /\ monitoring_loop_tasks[t].registered
                       THEN [monitoring_loop_tasks[t] EXCEPT
                                !.monitoring_config = ApplyUpdates(@, config_updates)]
                       ELSE monitoring_loop_tasks[t]]
            /\ UNCHANGED active_monitoring_tasks
    /\ ret' = Returned("update_monitoring_config", chat_id, chat_id \in DOMAIN monitoring_sessions)
    /\ UNCHANGED <<fnArgs, wsFlags, wsSubs, caches, arbOut, mvSess, mv_notifications, now>>

\* _check_arbitrage_opportunities (lines 353-412)
RECURSIVE check_arbitrage_opportunities(_, _)
check_arbitrage_opportunities(monitoring_config, n) ==
    IF n > Len(monitoring_config.symbols) THEN << >>
    ELSE LET symbol == monitoring_config.symbols[n]
             symbol_data == arb_market_data_cache[symbol]
             Monitored(data) == InList(data.exchange, monitoring_config.exchanges)
             Fresh(data) == is_fresh(data, 60)
             filtered_data == SelectSeq(symbol_data, Monitored)
             fresh_data == SelectSeq(filtered_data, Fresh)
             found == find_arbitrage_opportunities(fresh_data,
                          monitoring_config.threshold_percentage)
             symbol_opportunities ==
                 IF Len(filtered_data) < 2 THEN << >>
                 ELSE IF Len(fresh_data) < 2 THEN << >>
                 ELSE IF found.raised # "none" THEN << >>
                 ELSE found.opportunities
         IN symbol_opportunities \o check_arbitrage_opportunities(monitoring_config, n + 1)

OpportunityKey(opportunity) ==
    <<opportunity.symbol, opportunity.buy_exchange, opportunity.sell_exchange>>

\* Mutant: the cooldown still holds at the instant it ends.
is_alert_cooldown_activeAtEnd(cooldowns, opportunity_key) ==
    /\ opportunity_key \in DOMAIN cooldowns
    /\ now <= cooldowns[opportunity_key] + alert_cooldown_minutes * 60

\* _is_alert_cooldown_active (lines 454-470)
is_alert_cooldown_active(cooldowns, opportunity_key) ==
    /\ opportunity_key \in DOMAIN cooldowns
    /\ now < cooldowns[opportunity_key] + alert_cooldown_minutes * 60

\* Mutant: a suppressed signal renews the cooldown of its key.
process_opportunityRenewing(st, chat_id, opportunity) ==
    IF is_alert_cooldown_active(st.cooldowns, OpportunityKey(opportunity))
    THEN [st EXCEPT !.cooldowns = Put(@, OpportunityKey(opportunity), now)]
    ELSE [history |-> Append(st.history, opportunity),
          cooldowns |-> Put(st.cooldowns, OpportunityKey(opportunity), now),
          notifications |-> Append(st.notifications,
                                [chat_id |-> chat_id, opportunity |-> opportunity])]

\* _process_opportunity (lines 414-452) on the alert state
\* [history, cooldowns, notifications].
process_opportunity(st, chat_id, opportunity) ==
    IF is_alert_cooldown_active(st.cooldowns, OpportunityKey(opportunity))
    THEN st
    ELSE [history |-> Append(st.history, opportunity),
          cooldowns |-> Put(st.cooldowns, OpportunityKey(opportunity), now),
          notifications |-> Append(st.notifications,
                                [chat_id |-> chat_id, opportunity |-> opportunity])]

RECURSIVE ProcessAll(_, _, _)
ProcessAll(st, chat_id, opportunities) ==
    IF opportunities = << >> THEN st
    ELSE ProcessAll(process_opportunity(st, chat_id, Head(opportunities)),
                    chat_id, Tail(opportunities))

\* What a turn caught.  A notification callback that raises is caught where
\* it is called (_send_opportunity_alert lines 487-496, _send_market_update
\* lines 505-514) and the turn goes on; "loop" is the handler of the loop
\* (lines 264-270, market_view_service.py lines 358-365).
CaughtInLoop(notifications, callback_raises) ==
    IF notifications # << >> /\ callback_raises THEN "loop" ELSE "none"
CaughtInCallback(notifications, callback_raises) ==
    IF notifications # << >> /\ callback_raises THEN "callback" ELSE "none"

\* One turn of _monitoring_loop (lines 248-260), from the loop test to the
\* sleep; it runs when the previous sleep is over.
monitoring_loop(task) ==
    /\ task \in DOMAIN monitoring_loop_tasks
    /\ LET frame == monitoring_loop_tasks[task]
           monitoring_config == frame.monitoring_config
       IN /\ now >= frame.until
          /\ IF frame.chat_id \in DOMAIN monitoring_sessions
             THEN LET opportunities == check_arbitrage_opportunities(monitoring_config, 1)
                      st == ProcessAll([history |-> opportunity_history,
                                        cooldowns |-> alert_cooldowns,
                                        notifications |-> << >>],
                                       frame.chat_id, opportunities)
                  IN /\ opportunity_history' = st.history
                     /\ alert_cooldowns' = st.cooldowns
                     /\ arb_notifications' = IF st.notifications = << >>
                                              THEN arb_notifications
                                              ELSE st.notifications
                     /\ \E callback_raises \in BOOLEAN :
                            monitoring_loop_tasks' =
                                [monitoring_loop_tasks EXCEPT
                                    ![task].until = now + monitoring_config.update_interval,
                                    ![task].caught =
                                        CaughtInCallback(st.notifications, callback_raises)]
             ELSE /\ monitoring_loop_tasks' = Remove(monitoring_loop_tasks, task)
                  /\ UNCHANGED arbOut
    /\ UNCHANGED <<monitoring_sessions, active_monitoring_tasks>>
    /\ UNCHANGED <<fnVars, wsFlags, wsSubs, caches, mvSess, mv_notifications, now>>

\* ----------------------------------------- MarketViewService (lines 44-599)
min_update_interval == 1
max_update_interval == 30
\* An Optional attribute is a sequence of at most one value.
None == << >>
Some(value) == <<value>>

Max(a, b) == IF a >= b THEN a ELSE b
Min(a, b) == IF a <= b THEN a ELSE b
Abs(x) == IF x >= 0 THEN x ELSE 0 - x

\* MarketViewSession.__init__ (lines 27-41)
MarketViewSession(chat_id, symbol, exchanges, update_interval) ==
    [chat_id |-> chat_id, symbol |-> symbol, exchanges |-> exchanges,
     update_interval |-> update_interval, last_update |-> None, last_cbbo |-> None]

\* The keys _subscribe_to_symbol_data / _unsubscribe_from_symbol_data visit
\* (lines 379-428).
SessionKeys(session) == SymbolKeys(<<session.symbol>>, session.exchanges)

\* The frame of _market_view_loop(chat_id, session).  Its session object is
\* the registered one: start_market_view mutates it in place, and only
\* stop_market_view, which cancels the loop, unregisters it.
MarketViewLoopFrame(chat_id) == [chat_id |-> chat_id, until |-> now, caught |-> "none"]

\* start_market_view (lines 84-146)
start_market_view(chat_id, symbol, exchanges, requested_interval) ==
    LET update_interval ==
            Max(min_update_interval, Min(requested_interval, max_update_interval))
    IN /\ IF chat_id \in DOMAIN active_sessions
          THEN /\ active_sessions' =
                      [active_sessions EXCEPT ![chat_id].symbol = symbol,
                                              ![chat_id].exchanges = exchanges,
                                              ![chat_id].update_interval = update_interval]
               /\ UNCHANGED <<active_tasks, market_view_loop_tasks, wsSubs>>
          ELSE /\ \E t \in 1..MaxTasks : t \notin DOMAIN market_view_loop_tasks
               /\ CanSubscribe(SymbolKeys(<<symbol>>, exchanges))
               /\ LET session == MarketViewSession(chat_id, symbol, exchanges,
                                                   update_interval)
                      task == NewTask(market_view_loop_tasks)
                  IN /\ active_sessions' = Put(active_sessions, chat_id, session)
                     /\ market_view_loop_tasks' =
                            Put(market_view_loop_tasks, task, MarketViewLoopFrame(chat_id))
                     /\ active_tasks' = Put(active_tasks, chat_id, task)
                     /\ SetStreamState(SubscribeAll(StreamState, SessionKeys(session),
                                                    MvCallback))
       /\ UNCHANGED refresh_calls
       /\ UNCHANGED <<fnVars, wsFlags, caches, arbSess, arbOut, mv_notifications, now>>

\* The service's sessions, tasks and refresh calls with the streams, as
\* the body of stop_market_view works on them.
MvState ==
    [active_sessions |-> active_sessions, active_tasks |-> active_tasks,
     market_view_loop_tasks |-> market_view_loop_tasks,
     refresh_calls |-> refresh_calls, stream |-> StreamState]
SetMvState(st) ==
    /\ active_sessions' = st.active_sessions
    /\ active_tasks' = st.active_tasks
    /\ market_view_loop_tasks' = st.market_view_loop_tasks
    /\ refresh_calls' = st.refresh_calls
    /\ SetStreamState(st.stream)

\* The body of stop_market_view (lines 155-175)
StopMarketView(st, chat_id) ==
    IF chat_id \notin DOMAIN st.active_sessions
    THEN st
    ELSE LET has_task == chat_id \in DOMAIN st.active_tasks
         IN [active_sessions |-> Remove(st.active_sessions, chat_id),
             active_tasks |->
                 IF has_task THEN Remove(st.active_tasks, chat_id) ELSE st.active_tasks,
             market_view_loop_tasks |->
                 IF has_task
                 THEN Cancel(st.market_view_loop_tasks, st.active_tasks[chat_id])
                 ELSE st.market_view_loop_tasks,
             \* a refresh in flight keeps the session object, now unregistered
             refresh_calls |->
                 [c \in DOMAIN st.refresh_calls |->
                     IF st.refresh_calls[c].chat_id = chat_id
                     THEN [st.refresh_calls[c] EXCEPT !.registered = FALSE]
                     ELSE st.refresh_calls[c]],
             stream |-> UnsubscribeAll(st.stream, SessionKeys(st.active_sessions[chat_id]))]

\* stop_market_view (lines 148-177)
stop_market_view(chat_id) ==
    /\ SetMvState(StopMarketView(MvState, chat_id))
    /\ ret' = Returned("stop_market_view", chat_id, chat_id \in DOMAIN active_sessions)
    /\ UNCHANGED <<fnArgs, wsFlags, caches, arbSess, arbOut, mv_notifications, now>>

\* for chat_id in list(self.active_sessions.keys()): stop_market_view
RECURSIVE StopEachMarketView(_, _)
StopEachMarketView(st, chat_ids) ==
    IF chat_ids = {} THEN st
    ELSE LET chat_id == CHOOSE c \in chat_ids : \A other \in chat_ids : c <= other
         IN StopEachMarketView(StopMarketView(st, chat_id), chat_ids \ {chat_id})

\* MarketViewService.shutdown (lines 587-599), in one go as well.
market_view_shutdown ==
    /\ LET st == StopEachMarketView(MvState, DOMAIN active_sessions)
           remaining == {st.active_tasks[o] : o \in DOMAIN st.active_tasks}
       IN SetMvState([st EXCEPT !.market_view_loop_tasks = CancelAll(@, remaining)])
    /\ ret' = Returned("MarketViewService.shutdown", 0, active_sessions # EmptyMap)
    /\ UNCHANGED <<fnArgs, wsFlags, caches, arbSess, arbOut, mv_notifications, now>>

\* get_current_cbbo (lines 179-239); tickers[e] is what get_ticker returns
\* for exchange e, << >> when it raises GoMarketAPIError.
RECURSIVE FetchTickers(_, _, _, _)
FetchTickers(symbol, exchanges, tickers, n) ==
    IF n > Len(exchanges) THEN << >>
    ELSE (IF tickers[exchanges[n]] = << >> THEN << >>
          ELSE << TimedSnapshot(symbol, exchanges[n], tickers[exchanges[n]], now) >>)
         \o FetchTickers(symbol, exchanges, tickers, n + 1)

get_current_cbbo(symbol, exchanges, tickers) ==
    LET market_data == FetchTickers(symbol, exchanges, tickers, 1)
    IN IF market_data = << >>
       THEN [raised |-> "GoMarketAPIError"]
       ELSE consolidate_bbo(symbol, market_data)

\* _send_market_update (lines 488-530): the callback's arguments.
MarketUpdate(chat_id, cbbo, is_refresh) ==
    [chat_id |-> chat_id, cbbo |-> cbbo, is_refresh |-> is_refresh, at |-> now]

\* Mutant: the on-demand quote is stored as the last quote of every session
\* on that symbol.
call_get_current_cbboStoring(symbol, exchanges, tickers) ==
    /\ ret' = [fn |-> "get_current_cbbo",
               val |-> get_current_cbbo(symbol, exchanges, tickers)]
    /\ active_sessions' =
           [o \in DOMAIN active_sessions |->
               IF active_sessions[o].symbol = symbol /\ ret'.val.raised = "none"
               THEN [active_sessions[o] EXCEPT !.last_cbbo = Some(ret'.val)]
               ELSE active_sessions[o]]
    /\ UNCHANGED <<active_tasks, market_view_loop_tasks, refresh_calls>>
    /\ UNCHANGED <<fnArgs, wsFlags, wsSubs, caches, arbSess, arbOut, mv_notifications, now>>

\* A caller (the /view_market handler, handlers.py lines 250 and 796)
\* awaits get_current_cbbo (lines 179-239) and gets the quote or the
\* GoMarketAPIError; the method reads the tickers and writes nothing.
call_get_current_cbbo(symbol, exchanges, tickers) ==
    /\ ret' = [fn |-> "get_current_cbbo",
               val |-> get_current_cbbo(symbol, exchanges, tickers)]
    /\ UNCHANGED fnArgs
    /\ UNCHANGED sysVars

\* refresh_market_view (lines 241-280) up to its await of get_current_cbbo
\* (line 259), which suspends the call in get_ticker: the frame holds the
\* session object and the arguments evaluated from it.
NewCall(calls) == CHOOSE c \in 1..MaxCalls : c \notin DOMAIN calls

refresh_market_view(chat_id) ==
    /\ IF chat_id \notin DOMAIN active_sessions
       THEN UNCHANGED refresh_calls
       ELSE /\ \E c \in 1..MaxCalls : c \notin DOMAIN refresh_calls
            /\ LET session == active_sessions[chat_id]
               IN refresh_calls' =
                      Put(refresh_calls, NewCall(refresh_calls),
                          [chat_id |-> chat_id, symbol |-> session.symbol,
                           exchanges |-> session.exchanges, registered |-> TRUE])
    /\ UNCHANGED <<active_sessions, active_tasks, market_view_loop_tasks, mv_notifications>>
    /\ ret' = Returned("refresh_market_view", chat_id, chat_id \in DOMAIN active_sessions)
    /\ UNCHANGED <<fnArgs, wsFlags, wsSubs, caches, arbSess, arbOut, now>>

\* refresh_market_view from the return of get_current_cbbo (lines 259-280).
refresh_market_view_resume(call, tickers) ==
    /\ call \in DOMAIN refresh_calls
    /\ LET frame == refresh_calls[call]
           chat_id == frame.chat_id
           cbbo == get_current_cbbo(frame.symbol, frame.exchanges, tickers)
       IN IF cbbo.raised # "none"
          THEN UNCHANGED <<active_sessions, mv_notifications>>
          ELSE /\ active_sessions' =
                      IF frame.registered
                      THEN [active_sessions EXCEPT ![chat_id].last_cbbo = Some(cbbo),
                                                  ![chat_id].last_update = Some(now)]
                      ELSE active_sessions
               /\ mv_notifications' = <<MarketUpdate(chat_id, cbbo, TRUE)>>
    /\ refresh_calls' = Remove(refresh_calls, call)
    /\ UNCHANGED <<active_tasks, market_view_loop_tasks>>
    /\ UNCHANGED <<fnVars, wsFlags, wsSubs, caches, arbSess, arbOut, now>>

\* _should_send_update (lines 451-486).  The three relative changes are
\* computed before they are combined; a zero last spread divides by zero.
\* With the spreads a/b and c/d, |a/b - c/d| / (c/d) > 0.05 is
\* 20 * |a*d - c*b| > b*c when c > 0, and false when c < 0.
should_send_update(session, cbbo) ==
    IF session.last_cbbo = None
    THEN [raised |-> "none", value |-> TRUE]
    ELSE LET last_cbbo == session.last_cbbo[1]
             venue_changed ==
                 \/ cbbo.best_bid_exchange # last_cbbo.best_bid_exchange
                 \/ cbbo.best_ask_exchange # last_cbbo.best_ask_exchange
             price_changed ==
                 \/ Abs(cbbo.best_bid_price - last_cbbo.best_bid_price) * 1000
                        > last_cbbo.best_bid_price
                 \/ Abs(cbbo.best_ask_price - last_cbbo.best_ask_price) * 1000
                        > last_cbbo.best_ask_price
             a == cbbo.spread_percentage.num
             b == cbbo.spread_percentage.den
             c == last_cbbo.spread_percentage.num
             d == last_cbbo.spread_percentage.den
             spread_changed == c > 0 /\ 20 * Abs(a * d - c * b) > b * c
         IN IF c = 0
            THEN [raised |-> "ZeroDivisionError", value |-> FALSE]
            ELSE [raised |-> "none",
                  value |-> venue_changed \/ price_changed \/ spread_changed]

\* Mutant: one fresh exchange is enough for the loop to publish a quote.
EnoughFreshOne(fresh_data) == Len(fresh_data) >= 1

\* The loop's test on the fresh snapshots (line 341).
EnoughFresh(fresh_data) == Len(fresh_data) >= 2

\* One turn of _market_view_loop (lines 324-365), from the loop test to the
\* sleep; it runs when the previous sleep is over.
market_view_loop(task) ==
    /\ task \in DOMAIN market_view_loop_tasks
    /\ LET frame == market_view_loop_tasks[task]
           chat_id == frame.chat_id
       IN /\ now >= frame.until
          /\ IF chat_id \in DOMAIN active_sessions
             THEN LET session == active_sessions[chat_id]
                      symbol_data == mv_market_data_cache[session.symbol]
                      Watched(data) == InList(data.exchange, session.exchanges)
                      Fresh(data) == is_fresh(data, session.update_interval * 2)
                      fresh_data == SelectSeq(SelectSeq(symbol_data, Watched), Fresh)
                      cbbo == consolidate_bbo(session.symbol, fresh_data)
                      send == should_send_update(session, cbbo)
                  IN IF ~EnoughFresh(fresh_data)
                     THEN /\ market_view_loop_tasks' =
                                 [market_view_loop_tasks EXCEPT
                                     ![task].until = now + session.update_interval,
                                     ![task].caught = "none"]
                          /\ UNCHANGED <<active_sessions, mv_notifications>>
                     ELSE IF send.raised # "none"
                     THEN \* except Exception: sleep(5) (lines 358-365)
                          /\ market_view_loop_tasks' =
                                 [market_view_loop_tasks EXCEPT ![task].until = now + 5,
                                                                ![task].caught = "loop"]
                          /\ UNCHANGED <<active_sessions, mv_notifications>>
                     ELSE IF send.value
                     THEN /\ active_sessions' =
                                 [active_sessions EXCEPT
                                     ![chat_id].last_cbbo = Some(cbbo),
                                     ![chat_id].last_update = Some(now)]
                          /\ mv_notifications' = <<MarketUpdate(chat_id, cbbo, FALSE)>>
                          /\ \E callback_raises \in BOOLEAN :
                                 market_view_loop_tasks' =
                                     [market_view_loop_tasks EXCEPT
                                         ![task].until = now + session.update_interval,
                                         ![task].caught =
                                             CaughtInCallback(mv_notifications',
                                                              callback_raises)]
                     ELSE /\ market_view_loop_tasks' =
                                 [market_view_loop_tasks EXCEPT
                                     ![task].until = now + session.update_interval,
                                     ![task].caught = "none"]
                          /\ UNCHANGED <<active_sessions, mv_notifications>>
             ELSE /\ market_view_loop_tasks' = Remove(market_view_loop_tasks, task)
                  /\ UNCHANGED <<active_sessions, mv_notifications>>
    /\ UNCHANGED <<active_tasks, refresh_calls>>
    /\ UNCHANGED <<fnVars, wsFlags, wsSubs, caches, arbSess, arbOut, now>>

\* ------------------------------------------------------------- the clock
Tick(limit) ==
    /\ now + TickStep <= limit
    /\ now' = now + TickStep
    /\ UNCHANGED <<fnVars, wsFlags, wsSubs, caches, arbSess, arbOut, mvSess,
                   mv_notifications>>

\* ------------------------------------------------- state after construction
InitSys(attempts) ==
    /\ websocket = "none"
    /\ is_connected = FALSE
    /\ is_running = FALSE
    /\ use_polling = FALSE
    /\ reconnect_count = 0
    /\ max_reconnect_attempts = attempts
    /\ start_pc = "idle"
    /\ subscriptions = EmptyMap
    /\ polling_tasks = EmptyMap
    /\ active_streams = {}
    /\ ws_sent = EmptyMap
    /\ monitoring_sessions = EmptyMap
    /\ active_monitoring_tasks = EmptyMap
    /\ monitoring_loop_tasks = EmptyMap
    /\ arb_market_data_cache = [s \in Symbols |-> << >>]
    /\ opportunity_history = << >>
    /\ alert_cooldowns = EmptyMap
    /\ arb_notifications = << >>
    /\ active_sessions = EmptyMap
    /\ active_tasks = EmptyMap
    /\ market_view_loop_tasks = EmptyMap
    /\ refresh_calls = EmptyMap
    /\ mv_market_data_cache = [s \in Symbols |-> << >>]
    /\ mv_notifications = << >>
    /\ now = 0

\* ------------------------------------------------ the function harness
RawValues == {NaN} \cup {Float(x) : x \in -1..2}
RawInputs == [bid_price : RawValues, bid_size : RawValues,
              ask_price : RawValues, ask_size : RawValues]
\* self.rate_limit_delay, in seconds (gomarket_client.py line 49)
rate_limit_delay == 1
\* The callers of one client: two polling tasks and an on-demand fetch.
Callers == {"poll binance", "poll okx", "refresh"}
\* The client after construction (last_request_time = 0.0, line 50), at a
\* time.time() later than that, with no call under way.
NoPacing ==
    [time |-> rate_limit_delay, last_request_time |-> 0,
     callers |-> [c \in Callers |-> [pc |-> "idle", wake |-> 0]],
     issued |-> << >>]
\* No start_monitoring call is suspended.
NoStartCall == [chat_id |-> 0, keys |-> << >>, at |-> 0]
\* Before the first message.
NoInbound == [n |-> 0, json |-> FALSE, data |-> [symbol |-> ""]]
NoRaw == [bid_price |-> Float(1), bid_size |-> Float(1),
          ask_price |-> Float(2), ask_size |-> Float(1)]

\* Snapshot maps of one symbol: up to MaxExch distinct exchanges in any
\* insertion order, each with a quote MarketData accepts.
UsedExchanges(m) == {m[i].exchange : i \in 1..Len(m)}
RECURSIVE MapsOfLen(_)
MapsOfLen(n) ==
    IF n = 0 THEN { << >> }
    ELSE IF n > Len(Exchanges) THEN {}      \* a dict has one entry per exchange
    ELSE {Append(x[1], Snapshot(BTC, x[2], x[3][1], x[3][2])) :
             x \in {y \in MapsOfLen(n - 1) \X ExchangeSet \X Quotes :
                       y[2] \notin UsedExchanges(y[1])}}
MarketDataMaps == UNION {MapsOfLen(n) : n \in 0..MaxExch}

NotCalled == [fn |-> "none"]

\* ------------------------- GoMarketClient._make_request (gomarket_client.py)
retry_attempts == 3

\* The exception classes met in _make_request, each with its bases
\* (lines 20-27; asyncio.TimeoutError and ValueError are built in).
BasesOf(type) ==
    CASE type = "RateLimitError" -> {"RateLimitError", "GoMarketAPIError", "Exception"}
      [] type = "GoMarketAPIError" -> {"GoMarketAPIError", "Exception"}
      [] OTHER -> {type, "Exception"}
IsInstance(exc, class) == class \in BasesOf(exc.type)
Exc(type, message) == [type |-> type, message |-> message]
NoExc == Exc("none", "")

\* The API paths the client asks for (lines 228, 285, 333).
Endpoints == {"/api/symbols", "/api/ticker", "/api/orderbook"}

\* What self.session.request gives: a response with a status, a
\* Retry-After header and a body, or an exception of aiohttp.
RetryAfterHeaders == {"absent", "7", "http-date"}
Response(raises, status, retry_after, json_ok) ==
    [raises |-> raises, status |-> status, retry_after |-> retry_after, json_ok |-> json_ok]
Responses ==
    {Response("none", 200, "absent", j) : j \in BOOLEAN}
    \cup {Response("none", 429, h, TRUE) : h \in RetryAfterHeaders}
    \cup {Response("none", st, "absent", TRUE) : st \in {400, 500}}
    \cup {Response(e, 0, "absent", TRUE) : e \in {"ClientError", "TimeoutError"}}

\* int(response.headers.get('Retry-After', 60)) (line 148)
RetryAfter(response) ==
    CASE response.retry_after = "absent" -> [raised |-> NoExc, value |-> 60]
      [] response.retry_after = "7" -> [raised |-> NoExc, value |-> 7]
      [] OTHER -> [raised |-> Exc("ValueError", "invalid literal for int()"), value |-> 0]

\* The body of the try statement (lines 136-184) on one response: the
\* sleep it made, and the exception it raised or "none" when it returned.
TryBody(response) ==
    IF response.raises # "none"
    THEN [slept |-> << >>, raised |-> Exc(response.raises, "")]
    ELSE IF response.status = 429
    THEN IF RetryAfter(response).raised # NoExc
         THEN [slept |-> << >>, raised |-> RetryAfter(response).raised]
         ELSE [slept |-> <<RetryAfter(response).value>>,
               raised |-> Exc("RateLimitError", "Rate limit exceeded")]
    ELSE IF response.status >= 400
    THEN [slept |-> << >>,
          raised |-> Exc("GoMarketAPIError",
                         IF response.status = 400 THEN "HTTP 400" ELSE "HTTP 500")]
    ELSE IF ~response.json_ok
    THEN [slept |-> << >>, raised |-> Exc("GoMarketAPIError", "Invalid JSON response")]
    ELSE [slept |-> << >>, raised |-> NoExc]

\* Mutant: every retry waits one second.
RetryDelayOne(retry_count) == 1

\* delay = 2 ** retry_count (line 191)
RetryDelay(retry_count) == 2 ^ retry_count

\* except Exception (lines 202-204): whatever the try body raised that is
\* not an aiohttp.ClientError leaves as a new GoMarketAPIError.
Unexpected(exc) == Exc("GoMarketAPIError", "Unexpected error: " \o exc.message)

NoRequest ==
    [pc |-> "idle", endpoint |-> "", retry_count |-> 0, sends |-> 0,
     sleeps |-> << >>, last |-> Response("none", 0, "absent", TRUE), raised |-> NoExc]

\* A caller awaits _make_request(method, endpoint) (retry_count = 0); the
\* frame is followed up to self.session.request (line 145).
make_request(endpoint) ==
    /\ request.pc # "request"
    /\ request' = [NoRequest EXCEPT !.pc = "request", !.endpoint = endpoint]
    /\ UNCHANGED <<arg_raw, arg_market_data, arg_threshold, arg_session, start_call, arg_data, pacing, inbound, invoked, update_seq, ret>>
    /\ UNCHANGED sysVars

\* self.session.request completes with a response or raises; the frame is
\* followed to its return, its raise, or through the retry's sleep and the
\* recursive call (lines 186-200) to the next self.session.request.
make_request_response(response) ==
    /\ request.pc = "request"
    /\ LET body == TryBody(response)
           sent == [request EXCEPT !.sends = @ + 1, !.last = response,
                                   !.sleeps = @ \o body.slept]
       IN request' =
              IF body.raised = NoExc
              THEN [sent EXCEPT !.pc = "done"]
              ELSE IF IsInstance(body.raised, "ClientError")
              THEN IF request.retry_count < retry_attempts
                   THEN [sent EXCEPT !.sleeps = Append(@, RetryDelay(request.retry_count)),
                                     !.retry_count = @ + 1]
                   ELSE [sent EXCEPT !.pc = "done",
                                     !.raised = Exc("GoMarketAPIError",
                                                    "Network error after 3 retries")]
              ELSE [sent EXCEPT !.pc = "done", !.raised = Unexpected(body.raised)]
    /\ UNCHANGED <<arg_raw, arg_market_data, arg_threshold, arg_session, start_call, arg_data, pacing, inbound, invoked, update_seq, ret>>
    /\ UNCHANGED sysVars
NoSession == MarketViewSession(2, BTC, <<"binance", "okx">>, 5)

\* Snapshots of one symbol from binance and okx, and the sessions whose last
\* quote was consolidated from such a pair (or that have none yet).
TwoVenueMaps ==
    {m \in MapsOfLen(2) : m[1].exchange = "binance" /\ m[2].exchange = "okx"}
SessionInputs ==
    {NoSession} \cup
    {[NoSession EXCEPT !.last_cbbo = Some(consolidate_bbo(BTC, m)),
                       !.last_update = Some(0)] : m \in TwoVenueMaps}

InitFn ==
    /\ arg_raw = NoRaw
    /\ arg_market_data = << >>
    /\ arg_threshold = 0
    /\ arg_session = NoSession
    /\ request = NoRequest
    /\ start_call = NoStartCall
    /\ arg_data = EmptyMap
    /\ pacing = NoPacing
    /\ inbound = NoInbound
    /\ invoked = << >>
    /\ update_seq = [k \in Keys |-> 0]
    /\ ret = NotCalled

CallMarketData ==
    /\ ret.fn = "none"
    /\ ret' = [fn |-> "MarketData",
               val |-> MarketData(BTC, "binance", arg_raw.bid_price, arg_raw.bid_size,
                                  arg_raw.ask_price, arg_raw.ask_size)]
    /\ UNCHANGED fnArgs
    /\ UNCHANGED sysVars

CallFindArbitrage ==
    /\ ret.fn = "none"
    /\ ret' = [fn |-> "find_arbitrage_opportunities",
               val |-> find_arbitrage_opportunities(arg_market_data, arg_threshold)]
    /\ UNCHANGED fnArgs
    /\ UNCHANGED sysVars

CallConsolidate ==
    /\ ret.fn = "none"
    /\ ret' = [fn |-> "consolidate_bbo",
               val |-> consolidate_bbo(BTC, arg_market_data)]
    /\ UNCHANGED fnArgs
    /\ UNCHANGED sysVars

\* A second consolidate_bbo call on the map the first one was given.
CallConsolidateAgain ==
    /\ ret.fn = "consolidate_bbo"
    /\ ret' = [fn |-> "consolidate_bbo again", first |-> ret.val,
               val |-> consolidate_bbo(BTC, arg_market_data)]
    /\ UNCHANGED fnArgs
    /\ UNCHANGED sysVars

CallShouldSendUpdate ==
    /\ ret.fn = "none"
    /\ ret' = [fn |-> "should_send_update",
               val |-> should_send_update(arg_session,
                                          consolidate_bbo(BTC, arg_market_data))]
    /\ UNCHANGED fnArgs
    /\ UNCHANGED sysVars

\* MarketData construction over every combination of raw field values.
InitMarketData ==
    /\ arg_raw \in RawInputs
    /\ arg_market_data = << >>
    /\ arg_threshold = 0
    /\ arg_session = NoSession
    /\ request = NoRequest
    /\ start_call = NoStartCall
    /\ arg_data = EmptyMap
    /\ pacing = NoPacing
    /\ inbound = NoInbound
    /\ invoked = << >>
    /\ update_seq = [k \in Keys |-> 0]
    /\ ret = NotCalled
    /\ InitSys(websocket_max_reconnect_attempts)
NextMarketData == CallMarketData
SpecMarketData == InitMarketData /\ [][NextMarketData]_vars

\* Scan and consolidation over every snapshot map and threshold.
InitScan ==
    /\ arg_raw = NoRaw
    /\ arg_market_data \in MarketDataMaps
    /\ arg_threshold \in ThresholdInputs
    /\ arg_session = NoSession
    /\ request = NoRequest
    /\ start_call = NoStartCall
    /\ arg_data = EmptyMap
    /\ pacing = NoPacing
    /\ inbound = NoInbound
    /\ invoked = << >>
    /\ update_seq = [k \in Keys |-> 0]
    /\ ret = NotCalled
    /\ InitSys(websocket_max_reconnect_attempts)
NextScan == CallFindArbitrage \/ CallConsolidate
SpecScan == InitScan /\ [][NextScan]_vars

\* The significance test over every stored quote and every new quote of
\* two venues.
InitEmit ==
    /\ InitSys(websocket_max_reconnect_attempts)
    /\ arg_raw = NoRaw
    /\ arg_market_data \in TwoVenueMaps
    /\ arg_threshold = 0
    /\ arg_session \in SessionInputs
    /\ request = NoRequest
    /\ start_call = NoStartCall
    /\ arg_data = EmptyMap
    /\ pacing = NoPacing
    /\ inbound = NoInbound
    /\ invoked = << >>
    /\ update_seq = [k \in Keys |-> 0]
    /\ ret = NotCalled
NextEmit == CallShouldSendUpdate
SpecEmit == InitEmit /\ [][NextEmit]_vars

\* consolidate_bbo called twice on one map while the clock runs.
InitTwice ==
    /\ arg_raw = NoRaw
    /\ arg_market_data \in TwoVenueMaps
    /\ arg_threshold = 0
    /\ arg_session = NoSession
    /\ request = NoRequest
    /\ start_call = NoStartCall
    /\ arg_data = EmptyMap
    /\ pacing = NoPacing
    /\ inbound = NoInbound
    /\ invoked = << >>
    /\ update_seq = [k \in Keys |-> 0]
    /\ ret = NotCalled
    /\ InitSys(websocket_max_reconnect_attempts)
NextTwice == CallConsolidate \/ CallConsolidateAgain \/ Tick(ShortTime)
SpecTwice == InitTwice /\ [][NextTwice]_vars

\* Calls of _make_request over every sequence of responses.
InitRequest == InitFn /\ InitSys(websocket_max_reconnect_attempts)
NextRequest ==
    \/ \E endpoint \in Endpoints : make_request(endpoint)
    \/ \E response \in Responses : make_request_response(response)
SpecRequest == InitRequest /\ [][NextRequest]_vars
\* The awaited self.session.request and asyncio.sleep complete: the session
\* has a total timeout of 30 seconds (line 52).
SpecRequestFair ==
    SpecRequest /\ WF_vars(\E response \in Responses : make_request_response(response))

\* ------------------------------------------------------ the system's inputs
\* What /monitor_arb, the service API and the exchanges feed in.
ConfigA(chat_id) == MonitoringConfig(chat_id, <<BTC>>, <<"binance", "okx">>, 50, 30)
ConfigB(chat_id) == MonitoringConfig(chat_id, <<ETH>>, <<"okx", "binance">>, 100, 60)
ConfigInputs(chat_id) == IF chat_id = 1 THEN {ConfigA(1), ConfigB(1)} ELSE {ConfigA(chat_id)}
UpdateInputs == {[threshold_percentage |-> 100]}
ViewInputs == {<<BTC, <<"binance", "okx">>, 5>>, <<ETH, <<"okx", "binance">>, 40>>}
FeedQuotes == {<<1, 2>>, <<3, 4>>}
BtcKeys == {k \in Keys : k[2] = BTC}
\* In the loop specification each exchange quotes one price: binance bids
\* above the ask of okx.
QuoteOf(exchange) == IF exchange = "binance" THEN <<3, 4>> ELSE <<1, 2>>
TickerInputs == {q \in [SysExchanges -> FeedQuotes \cup {<< >>}] :
                    \A e \in SysExchanges : q[e] \in {QuoteOf(e), << >>}}

\* main.py (lines 273-283): the Telegram application, and with it every
\* handler, starts once DataStreamManager.start() has returned.
BotRunning == start_pc = "returned"

\* Sessions of both services over the stream manager, at one instant.
Init == InitFn /\ InitSys(websocket_max_reconnect_attempts)
Next ==
    \/ \E ok \in BOOLEAN : manager_connect(ok)
    \/ start
    \/ BotRunning /\ \E o \in Owners : \E c \in ConfigInputs(o) : start_monitoring(c)
    \/ BotRunning /\ \E o \in Owners : stop_monitoring(o)
    \/ BotRunning /\ \E u \in UpdateInputs : update_monitoring_config(1, u)
    \/ BotRunning /\ \E v \in ViewInputs : start_market_view(2, v[1], v[2], v[3])
    \/ BotRunning /\ stop_market_view(2)
Spec == Init /\ [][Next]_vars

\* The transport: connect, push, failure, reconnect and polling, with one
\* caller of the arbitrage service subscribing and unsubscribing.
InitStream == InitFn /\ \E n \in 0..MaxAttempts : InitSys(n)
NextStream ==
    \/ \E ok \in BOOLEAN : manager_connect(ok)
    \/ start
    \/ \E k \in BtcKeys : \E q \in FeedQuotes : recv_message(k, q)
    \/ \E closed \in BOOLEAN : recv_error(closed)
    \/ \E ok \in BOOLEAN : reconnect(ok)
    \/ \E k \in BtcKeys : \E q \in FeedQuotes \cup {<< >>} : poll_worker(k, q)
    \/ start_monitoring(ConfigA(1))
    \/ stop_monitoring(1)
SpecStream == InitStream /\ [][NextStream]_vars

\* The arbitrage loop over polled snapshots, with the clock.
InitArb == InitFn /\ InitSys(websocket_max_reconnect_attempts)
NextArb ==
    \/ manager_connect(FALSE)
    \/ start
    \/ \E k \in BtcKeys : poll_worker(k, QuoteOf(k[1]))
    \/ BotRunning /\ \E o \in Owners : \E c \in ConfigInputs(o) : start_monitoring(c)
    \/ \E t \in 1..MaxTasks : monitoring_loop(t)
    \/ Tick(MaxTime)
SpecArb == InitArb /\ [][NextArb]_vars

\* The loops of both services and the manual refresh over polled
\* snapshots, with the clock.
InitLoop == InitFn /\ InitSys(websocket_max_reconnect_attempts)
NextLoop ==
    \/ manager_connect(FALSE)
    \/ start
    \/ \E k \in BtcKeys : poll_worker(k, QuoteOf(k[1]))
    \/ BotRunning /\ start_monitoring(ConfigA(1))
    \/ \E t \in 1..MaxTasks : monitoring_loop(t)
    \/ BotRunning /\ start_market_view(2, BTC, <<"binance", "okx">>, 5)
    \/ BotRunning /\ refresh_market_view(2)
    \/ \E c \in 1..MaxCalls : \E q \in TickerInputs : refresh_market_view_resume(c, q)
    \/ \E t \in 1..MaxTasks : market_view_loop(t)
    \/ Tick(ShortTime)
SpecLoop == InitLoop /\ [][NextLoop]_vars

\* The life of a market-view session beside an arbitrage session, at one
\* instant: start, loop turns, refresh and stop.
InitSession == InitFn /\ InitSys(websocket_max_reconnect_attempts)
NextSession ==
    \/ manager_connect(FALSE)
    \/ start
    \/ \E k \in BtcKeys : poll_worker(k, QuoteOf(k[1]))
    \/ BotRunning /\ start_monitoring(ConfigA(1))
    \/ BotRunning /\ stop_monitoring(1)
    \/ BotRunning /\ start_market_view(2, BTC, <<"binance", "okx">>, 5)
    \/ BotRunning /\ stop_market_view(2)
    \/ BotRunning /\ refresh_market_view(2)
    \/ \E c \in 1..MaxCalls : \E q \in TickerInputs : refresh_market_view_resume(c, q)
    \/ \E t \in 1..MaxTasks : market_view_loop(t)
SpecSession == InitSession /\ [][NextSession]_vars

\* The loops of both services with their stops and the clock, over quotes
\* that cross (binance bids 3 over okx asking 2) or lock (binance bids 2).
FeedOf(exchange) == IF exchange = "binance" THEN {<<3, 4>>, <<2, 3>>} ELSE {<<1, 2>>}
InitBackoff == InitFn /\ InitSys(websocket_max_reconnect_attempts)
NextBackoff ==
    \/ manager_connect(FALSE)
    \/ start
    \/ \E k \in BtcKeys : \E q \in FeedOf(k[1]) : poll_worker(k, q)
    \/ BotRunning /\ start_monitoring(ConfigA(1))
    \/ \E t \in 1..MaxTasks : monitoring_loop(t)
    \/ BotRunning /\ start_market_view(2, BTC, <<"binance", "okx">>, 10)
    \/ BotRunning /\ stop_market_view(2)
    \/ \E t \in 1..MaxTasks : market_view_loop(t)
    \/ Tick(ShortTime)
SpecBackoff == InitBackoff /\ [][NextBackoff]_vars

\* The on-demand quote asked for beside the sessions and loops of both
\* services.
InitCbbo == InitFn /\ InitSys(websocket_max_reconnect_attempts)
NextCbbo ==
    \/ manager_connect(FALSE)
    \/ start
    \/ \E k \in BtcKeys : poll_worker(k, QuoteOf(k[1]))
    \/ BotRunning /\ start_monitoring(ConfigA(1))
    \/ \E t \in 1..MaxTasks : monitoring_loop(t)
    \/ BotRunning /\ start_market_view(2, BTC, <<"binance", "okx">>, 5)
    \/ \E t \in 1..MaxTasks : market_view_loop(t)
    \/ BotRunning /\ \E q \in TickerInputs :
                         call_get_current_cbbo(BTC, <<"binance", "okx">>, q)
SpecCbbo == InitCbbo /\ [][NextCbbo]_vars

\* Sessions of both services started, restarted and shut down.
InitShutdown == InitFn /\ InitSys(websocket_max_reconnect_attempts)
NextShutdown ==
    \/ \E ok \in BOOLEAN : manager_connect(ok)
    \/ start
    \/ BotRunning /\ \E o \in Owners : \E c \in ConfigInputs(o) : start_monitoring(c)
    \/ BotRunning /\ \E o \in Owners : \E v \in ViewInputs :
                         start_market_view(o, v[1], v[2], v[3])
    \/ BotRunning /\ arbitrage_shutdown
    \/ BotRunning /\ market_view_shutdown
SpecShutdown == InitShutdown /\ [][NextShutdown]_vars

\* Session operations called for owners with and without a session, beside
\* a running arbitrage loop.
InitAbsent == InitFn /\ InitSys(websocket_max_reconnect_attempts)
NextAbsent ==
    \/ manager_connect(FALSE)
    \/ start
    \/ \E k \in BtcKeys : poll_worker(k, QuoteOf(k[1]))
    \/ BotRunning /\ start_monitoring(ConfigA(1))
    \/ \E t \in 1..MaxTasks : monitoring_loop(t)
    \/ BotRunning /\ \E o \in Owners : stop_monitoring(o)
    \/ BotRunning /\ \E o \in Owners : \E u \in UpdateInputs : update_monitoring_config(o, u)
    \/ BotRunning /\ start_market_view(2, BTC, <<"binance", "okx">>, 5)
    \/ BotRunning /\ stop_market_view(1)
    \/ BotRunning /\ refresh_market_view(1)
SpecAbsent == InitAbsent /\ [][NextAbsent]_vars


\* ======================================================== claims C3, C4, C6, C8
ScanReturned == ret.fn = "find_arbitrage_opportunities"
ScanResult == ret.val.opportunities
Crossed(A, B) ==
    /\ A.exchange # B.exchange
    /\ A.ask_price < B.bid_price
    /\ (B.bid_price - A.ask_price) * 100 >= arg_threshold * A.ask_price

\* C3 (as claimed): whenever the map holds exchanges A and B with A.ask < B.bid
\* and a spread of at least the threshold, the scan returns the signal
\* buy A at A.ask, sell B at B.bid, whatever the order of A and B in the map.
C3_ScanFindsEveryCrossedPair ==
    ScanReturned =>
        \A a, b \in 1..Len(arg_market_data) :
            Crossed(arg_market_data[a], arg_market_data[b]) =>
                \E k \in 1..Len(ScanResult) :
                    /\ ScanResult[k].buy_exchange = arg_market_data[a].exchange
                    /\ ScanResult[k].buy_price = arg_market_data[a].ask_price
                    /\ ScanResult[k].sell_exchange = arg_market_data[b].exchange
                    /\ ScanResult[k].sell_price = arg_market_data[b].bid_price

SnapshotOf(e) ==
    CHOOSE d \in {arg_market_data[i] : i \in 1..Len(arg_market_data)} : d.exchange = e

\* C4: every signal the scan returns over valid snapshots has distinct buy and
\* sell exchanges, buyPrice > 0, sellPrice > buyPrice, spreadAbs = sellPrice -
\* buyPrice, spreadPct = spreadAbs / buyPrice * 100 > 0 and >= the threshold,
\* buyPrice the buy exchange's ask and sellPrice the sell exchange's bid, and
\* no unordered pair of exchanges yields two signals.
C4_SignalsWellFormed ==
    ScanReturned =>
        /\ ret.val.raised = "none"
        /\ \A k \in 1..Len(ScanResult) :
              LET o == ScanResult[k] IN
              /\ o.buy_exchange # o.sell_exchange
              /\ o.buy_exchange \in UsedExchanges(arg_market_data)
              /\ o.sell_exchange \in UsedExchanges(arg_market_data)
              /\ o.buy_price > 0
              /\ o.sell_price > o.buy_price
              /\ o.spread_absolute = o.sell_price - o.buy_price
              /\ o.spread_percentage.num = o.spread_absolute * 100
              /\ o.spread_percentage.den = o.buy_price
              /\ o.spread_percentage.num > 0
              /\ o.spread_percentage.num >= arg_threshold * o.spread_percentage.den
              /\ o.buy_price = SnapshotOf(o.buy_exchange).ask_price
              /\ o.sell_price = SnapshotOf(o.sell_exchange).bid_price
        /\ \A k, l \in 1..Len(ScanResult) :
              k # l => {ScanResult[k].buy_exchange, ScanResult[k].sell_exchange}
                       # {ScanResult[l].buy_exchange, ScanResult[l].sell_exchange}

\* C4 witness: a scan over three exchanges that returned two signals.
C4_Witness ==
    /\ ScanReturned /\ Len(arg_market_data) = 3 /\ arg_threshold > 0
    /\ Len(ScanResult) >= 2

CbboReturned == ret.fn = "consolidate_bbo"
Bids == {arg_market_data[i].bid_price : i \in 1..Len(arg_market_data)}
Asks == {arg_market_data[i].ask_price : i \in 1..Len(arg_market_data)}

\* C6: for a non-empty snapshot map, consolidate_bbo returns the maximum bid
\* and the minimum ask, names for each an exchange of the map that quotes
\* exactly that price, and lists exactly the exchanges of the map.
C6_BestBidMaxBestAskMin ==
    (CbboReturned /\ Len(arg_market_data) >= 1) =>
        /\ ret.val.raised = "none"
        /\ ret.val.best_bid_price \in Bids
        /\ \A b \in Bids : b <= ret.val.best_bid_price
        /\ ret.val.best_ask_price \in Asks
        /\ \A a \in Asks : a >= ret.val.best_ask_price
        /\ ret.val.best_bid_exchange \in UsedExchanges(arg_market_data)
        /\ SnapshotOf(ret.val.best_bid_exchange).bid_price = ret.val.best_bid_price
        /\ ret.val.best_ask_exchange \in UsedExchanges(arg_market_data)
        /\ SnapshotOf(ret.val.best_ask_exchange).ask_price = ret.val.best_ask_price
        /\ Len(ret.val.all_exchanges) = Len(arg_market_data)
        /\ {ret.val.all_exchanges[i] : i \in 1..Len(ret.val.all_exchanges)}
             = UsedExchanges(arg_market_data)

\* C6 witness: three snapshots whose best bid and best ask are on different
\* exchanges, neither of them the first of the map.
C6_Witness ==
    /\ CbboReturned /\ Len(arg_market_data) = 3
    /\ ret.val.raised = "none"
    /\ ret.val.best_bid_exchange # ret.val.best_ask_exchange
    /\ ret.val.best_bid_exchange # arg_market_data[1].exchange
    /\ ret.val.best_ask_exchange # arg_market_data[1].exchange

\* C8 (as claimed): constructing a MarketData succeeds exactly when the five
\* clauses bid > 0, ask > 0, bidSize > 0, askSize > 0 and bid < ask all hold.
C8_ConstructionIffClauses ==
    ret.fn = "MarketData" =>
        (ret.val.raised = "none" <=>
            SnapshotClauses(arg_raw.bid_price, arg_raw.bid_size,
                            arg_raw.ask_price, arg_raw.ask_size))

\* ============================================== claims C1, C2, C5, C7, C9, C10
KeysOfList(keys) == {keys[n] : n \in 1..Len(keys)}
\* The keys the sessions of a service are configured for.
ArbKeys(sessions) ==
    UNION {KeysOfList(SymbolKeys(sessions[o].symbols, sessions[o].exchanges)) :
              o \in DOMAIN sessions}
MvKeys(sessions) ==
    UNION {KeysOfList(SessionKeys(sessions[o])) : o \in DOMAIN sessions}
SessionStopped ==
    \/ DOMAIN monitoring_sessions' # DOMAIN monitoring_sessions
       /\ DOMAIN monitoring_sessions' \subseteq DOMAIN monitoring_sessions
    \/ DOMAIN active_sessions' # DOMAIN active_sessions
       /\ DOMAIN active_sessions' \subseteq DOMAIN active_sessions

\* C1: when a key has two registered subscribers and one session is stopped
\* while another session configured for the key remains, the key keeps a
\* callback and, if it was polled, its poll worker.
C1_StopLeavesSharedKeyAlive ==
    [][\A k \in Keys :
          (/\ SessionStopped
           /\ k \in DOMAIN subscriptions
           /\ Len(subscriptions[k]) >= 2
           /\ k \in ArbKeys(monitoring_sessions') \cup MvKeys(active_sessions'))
          => /\ k \in DOMAIN subscriptions'
             /\ Len(subscriptions'[k]) >= 1
             /\ (k \in DOMAIN polling_tasks => k \in DOMAIN polling_tasks')]_vars

\* C2: at the moment the reconnect attempts are used up the transport is in
\* polling mode and every key that has subscribers has a running poll worker.
C2_DegradeKeepsEveryKeyPolled ==
    [][(/\ start_pc \in {"recv", "reconnecting"}
        /\ start_pc' = "returned"
        /\ websocket' # "open"
        /\ reconnect_count' >= max_reconnect_attempts)
       => /\ use_polling'
          /\ \A k \in DOMAIN subscriptions' :
                 /\ k \in DOMAIN polling_tasks'
                 /\ polling_tasks'[k] = "running"]_vars

NewHistory ==
    SubSeq(opportunity_history', Len(opportunity_history) + 1, Len(opportunity_history'))
Emitted(key) ==
    /\ Cardinality({i \in 1..Len(NewHistory) : OpportunityKey(NewHistory[i]) = key}) = 1
    /\ key \in DOMAIN alert_cooldowns' /\ alert_cooldowns'[key] = now
    /\ \E j \in 1..Len(arb_notifications') :
           OpportunityKey(arb_notifications'[j].opportunity) = key
Suppressed(key) ==
    /\ \A i \in 1..Len(NewHistory) : OpportunityKey(NewHistory[i]) # key
    /\ alert_cooldowns'[key] = alert_cooldowns[key]
    /\ \/ arb_notifications' = arb_notifications
       \/ \A j \in 1..Len(arb_notifications') :
              OpportunityKey(arb_notifications'[j].opportunity) # key

\* C5: in a loop turn, a qualifying signal whose key was last accepted less
\* than 60 seconds ago is suppressed (no history entry, no notification, the
\* firing time kept); one whose key was never accepted, or 60 seconds ago or
\* more, is emitted once and records the new firing time.
C5_CooldownSixtySeconds ==
    [][\A t \in DOMAIN monitoring_loop_tasks :
          monitoring_loop(t) =>
              LET found == check_arbitrage_opportunities(
                               monitoring_loop_tasks[t].monitoring_config, 1)
              IN \A i \in 1..Len(found) :
                     LET key == OpportunityKey(found[i])
                     IN IF key \in DOMAIN alert_cooldowns
                           /\ now - alert_cooldowns[key] < 60
                        THEN Suppressed(key)
                        ELSE Emitted(key)]_vars

\* The same key was accepted twice, the second time 60 seconds or more after
\* the first.
C5_Witness ==
    \E i, j \in 1..Len(opportunity_history) :
        /\ i < j
        /\ OpportunityKey(opportunity_history[i]) = OpportunityKey(opportunity_history[j])
        /\ opportunity_history[j].timestamp - opportunity_history[i].timestamp >= 60

Contributors(cbbo) == Len(cbbo.all_exchanges)

\* C7: no quote that is notified or stored in a session was computed from
\* fewer than 2 snapshots.
C7_NoQuoteFromFewerThanTwo ==
    /\ \A n \in 1..Len(mv_notifications) : Contributors(mv_notifications[n].cbbo) >= 2
    /\ \A o \in DOMAIN active_sessions :
           active_sessions[o].last_cbbo # None
               => Contributors(active_sessions[o].last_cbbo[1]) >= 2

FreshCount(entries, exchanges, max_age_seconds) ==
    Cardinality({i \in 1..Len(entries) :
                    /\ InList(entries[i].exchange, exchanges)
                    /\ now - entries[i].timestamp <= max_age_seconds})

\* C7 (amended): a loop turn emits a signal or a quote only from 2 or more
\* fresh snapshots of the symbol; get_current_cbbo, and the manual refresh
\* that uses it, return a quote from 1 or more snapshots and fail only with
\* none.
C7_LoopsNeedTwoRefreshNeedsOne ==
    [][/\ \A t \in DOMAIN monitoring_loop_tasks :
              (monitoring_loop(t) /\ opportunity_history' # opportunity_history)
              => \A i \in 1..Len(NewHistory) :
                     FreshCount(arb_market_data_cache[NewHistory[i].symbol],
                                monitoring_loop_tasks[t].monitoring_config.exchanges,
                                60) >= 2
       /\ \A n \in 1..Len(mv_notifications') :
              mv_notifications' # mv_notifications =>
                  LET update == mv_notifications'[n]
                      session == active_sessions[update.chat_id]
                  IN IF update.is_refresh
                     THEN Contributors(update.cbbo) >= 1
                     ELSE /\ Contributors(update.cbbo) >= 2
                          /\ FreshCount(mv_market_data_cache[session.symbol],
                                        session.exchanges,
                                        2 * session.update_interval) >= 2]_vars

\* A refresh published a quote made of a single exchange's snapshot.
C7_Witness ==
    \E n \in 1..Len(mv_notifications) :
        /\ mv_notifications[n].is_refresh
        /\ Contributors(mv_notifications[n].cbbo) = 1

LoopsOf(tasks, o) == {t \in DOMAIN tasks : tasks[t].chat_id = o}

\* C9: after every completed start, update or stop each owner has at most
\* one session record and one loop task, and the owners with a loop task are
\* the owners with a session record.
C9_OneSessionOneTaskPerOwner ==
    /\ DOMAIN active_monitoring_tasks = DOMAIN monitoring_sessions
    /\ DOMAIN active_tasks = DOMAIN active_sessions
    /\ \A o \in Owners :
           /\ LoopsOf(monitoring_loop_tasks, o) =
                  IF o \in DOMAIN monitoring_sessions
                  THEN {active_monitoring_tasks[o]} ELSE {}
           /\ LoopsOf(market_view_loop_tasks, o) =
                  IF o \in DOMAIN active_sessions THEN {active_tasks[o]} ELSE {}

\* An owner's arbitrage session was started again while it existed, and a
\* market-view session runs beside it.
C9_Witness ==
    /\ \E t \in DOMAIN monitoring_loop_tasks : ~monitoring_loop_tasks[t].registered
    /\ DOMAIN monitoring_sessions = Owners
    /\ active_sessions # EmptyMap

\* C10: every turn of an owner's arbitrage loop scans the symbols and
\* exchanges of the owner's registered session with its threshold and then
\* sleeps its interval.
C10_LoopFollowsRestartedSession ==
    [][\A t \in DOMAIN monitoring_loop_tasks :
          (/\ monitoring_loop(t)
           /\ monitoring_loop_tasks[t].chat_id \in DOMAIN monitoring_sessions)
          => LET used == monitoring_loop_tasks[t].monitoring_config
                 session == monitoring_sessions[monitoring_loop_tasks[t].chat_id]
             IN /\ used.symbols = session.symbols
                /\ used.exchanges = session.exchanges
                /\ used.threshold_percentage = session.threshold_percentage
                /\ monitoring_loop_tasks'[t].until = now + session.update_interval]_vars

\* ===================================================== claims C11 .. C20
OwnerStopped(sessions, o) == o \in DOMAIN sessions /\ o \notin DOMAIN sessions'
Released(k) ==
    \/ k \notin DOMAIN subscriptions'
    \/ k \in DOMAIN subscriptions /\ Len(subscriptions'[k]) < Len(subscriptions[k])

\* C11: a stop of an owner's session removes the session record and the
\* loop task and releases every pair of the session, and a notification is
\* delivered to an owner only while the owner has a session.
C11_StopEndsSessionAndNotifications ==
    [][/\ \A o \in Owners :
              /\ OwnerStopped(monitoring_sessions, o)
                 => /\ o \notin DOMAIN active_monitoring_tasks'
                    /\ LoopsOf(monitoring_loop_tasks', o) = {}
                    /\ \A k \in KeysOfList(SymbolKeys(monitoring_sessions[o].symbols,
                                                        monitoring_sessions[o].exchanges)) :
                           Released(k)
              /\ OwnerStopped(active_sessions, o)
                 => /\ o \notin DOMAIN active_tasks'
                    /\ LoopsOf(market_view_loop_tasks', o) = {}
                    /\ \A k \in KeysOfList(SessionKeys(active_sessions[o])) : Released(k)
       /\ arb_notifications' # arb_notifications
          => \A n \in 1..Len(arb_notifications') :
                 arb_notifications'[n].chat_id \in DOMAIN monitoring_sessions
       /\ mv_notifications' # mv_notifications
          => \A n \in 1..Len(mv_notifications') :
                 mv_notifications'[n].chat_id \in DOMAIN active_sessions]_vars

AbsentCall(o) ==
    \/ /\ o \notin DOMAIN monitoring_sessions
       /\ \/ stop_monitoring(o)
          \/ \E u \in UpdateInputs : update_monitoring_config(o, u)
    \/ /\ o \notin DOMAIN active_sessions
       /\ \/ stop_market_view(o)
          \/ refresh_market_view(o)

\* C12: stop, update and refresh called for an owner without a session
\* raise nothing and change no session record, loop task, subscription,
\* cache, cooldown, history entry or notification.
C12_AbsentOwnerCallsAreNoOps ==
    [][\A o \in Owners :
          AbsentCall(o) => /\ ret'.raised = "none"
                           /\ ~ret'.found
                           /\ UNCHANGED sysVars]_vars

\* An update came back for an owner without a session while another owner's
\* sessions, the caches, the history and the cooldowns were in use.
C12_Witness ==
    /\ ret = Returned("update_monitoring_config", 2, FALSE)
    /\ monitoring_sessions # EmptyMap
    /\ active_sessions # EmptyMap
    /\ opportunity_history # << >>
    /\ alert_cooldowns # EmptyMap
    /\ \A symbol \in {BTC} : arb_market_data_cache[symbol] # << >>

ArbTurn(t) == monitoring_loop(t) /\ t \in DOMAIN monitoring_loop_tasks'
MvTurn(t) == market_view_loop(t) /\ t \in DOMAIN market_view_loop_tasks'
SessionsKept ==
    /\ UNCHANGED <<monitoring_sessions, active_monitoring_tasks, active_tasks>>
    /\ DOMAIN active_sessions' = DOMAIN active_sessions
    /\ DOMAIN monitoring_loop_tasks' = DOMAIN monitoring_loop_tasks
    /\ DOMAIN market_view_loop_tasks' = DOMAIN market_view_loop_tasks
\* A loop task is gone only when its owner's session record is gone.
EndsOnlyByStop ==
    /\ \A t \in DOMAIN monitoring_loop_tasks \ DOMAIN monitoring_loop_tasks' :
           monitoring_loop_tasks[t].chat_id \notin DOMAIN monitoring_sessions'
    /\ \A t \in DOMAIN market_view_loop_tasks \ DOMAIN market_view_loop_tasks' :
           market_view_loop_tasks[t].chat_id \notin DOMAIN active_sessions'

EmitReturned == ret.fn = "should_send_update"
EmitCurrent == consolidate_bbo(BTC, arg_market_data)
\* |x - y| / |y| > p / q, for y # 0
MovedMoreThan(x, y, p, q) == Abs(x - y) * q > p * Abs(y)
\* The relative move of spreadPct = n/d from the previous one exceeds 5%.
SpreadMoved(previous, current) ==
    LET a == current.spread_percentage.num
        b == current.spread_percentage.den
        c == previous.spread_percentage.num
        d == previous.spread_percentage.den
    IN IF c = 0 THEN a # 0 ELSE MovedMoreThan(a * d, c * b, 5, 100)
ShouldEmit(previous, current) ==
    \/ previous = None
    \/ /\ previous # None
       /\ \/ current.best_bid_exchange # previous[1].best_bid_exchange
          \/ current.best_ask_exchange # previous[1].best_ask_exchange
          \/ MovedMoreThan(current.best_bid_price, previous[1].best_bid_price, 1, 1000)
          \/ MovedMoreThan(current.best_ask_price, previous[1].best_ask_price, 1, 1000)
          \/ SpreadMoved(previous[1], current)

\* C14: should_send_update never raises and returns TRUE exactly when there
\* is no previous quote, or a best exchange changed, or the best bid or ask
\* moved by more than 0.1%, or spreadPct moved by more than 5%, also for
\* locked and crossed previous quotes.
C14_ShouldEmitTotalAndExact ==
    EmitReturned =>
        /\ ret.val.raised = "none"
        /\ ret.val.value = ShouldEmit(arg_session.last_cbbo, EmitCurrent)

RequestGot(status) ==
    /\ request.pc = "request" /\ request'.pc = "done"
    /\ request'.last.raises = "none" /\ request'.last.status = status

\* C15: on a 429 response the client sleeps the Retry-After duration, does
\* not send again, and raises a RateLimitError, which the errors raised for
\* the other statuses >= 400 are not.
C15_RateLimitErrorSurfaced ==
    [][/\ RequestGot(429) =>
           /\ request'.sends = request.sends + 1
           /\ RetryAfter(request'.last).raised = NoExc =>
                  request'.sleeps = Append(request.sleeps, RetryAfter(request'.last).value)
           /\ IsInstance(request'.raised, "RateLimitError")
       /\ (RequestGot(400) \/ RequestGot(500)) =>
           /\ IsInstance(request'.raised, "GoMarketAPIError")
           /\ ~IsInstance(request'.raised, "RateLimitError")]_vars

RECURSIVE Delays(_)
Delays(n) == IF n = 0 THEN << >> ELSE Append(Delays(n - 1), 2 ^ (n - 1))
Retried == request'.sends = request.sends + 1 /\ request'.pc = "request"
\* C16: network errors are retried at most 3 times, the n-th retry after
\* 2^n seconds, then a network error is raised; other errors are never
\* retried; every call ends.
C16_BoundedRetriesWithBackoff ==
    /\ [](/\ request.retry_count <= 3
          /\ request.sends <= 4
          /\ request.pc = "request" =>
                 /\ request.sends = request.retry_count
                 /\ request.sleeps = Delays(request.retry_count))
    /\ [][/\ Retried => /\ IsInstance(Exc(request'.last.raises, ""), "ClientError")
                        /\ request'.retry_count = request.retry_count + 1
                        /\ request'.sleeps =
                               Append(request.sleeps, 2 ^ request.retry_count)
          /\ (make_request_response(Response("ClientError", 0, "absent", TRUE))
                /\ request.retry_count = 3)
              => /\ request'.pc = "done"
                 /\ request'.sends = 4
                 /\ request'.raised.message = "Network error after 3 retries"
          /\ (\E response \in Responses :
                  /\ make_request_response(response)
                  /\ response.raises # "ClientError")
              => request'.pc = "done"]_vars
    /\ (request.pc = "request" ~> request.pc = "done")

\* Four sends failed with a network error, after waits of 1, 2 and 4
\* seconds, and the call raised.
C16_Witness ==
    /\ request.pc = "done"
    /\ request.sends = 4
    /\ request.sleeps = <<1, 2, 4>>
    /\ request.last.raises = "ClientError"
    /\ request.raised.type = "GoMarketAPIError"

ShutdownReturned(service) == ret.fn = service /\ ret.found
CallbacksOn(k) == IF k \in DOMAIN subscriptions THEN subscriptions[k] ELSE << >>
\* No key carries the service's callback, and no key is polled or streamed
\* that nobody is subscribed to.
ReleasedBy(callback) ==
    /\ \A k \in Keys : ~InList(callback, CallbacksOn(k))
    /\ \A k \in DOMAIN polling_tasks \cup active_streams : k \in DOMAIN subscriptions

\* C17: when shutdown() of a service has returned, the service has no
\* session records and no loop tasks, and every subscription its sessions
\* took is released.
C17_ShutdownReleasesEverything ==
    [][/\ arbitrage_shutdown =>
           /\ monitoring_sessions' = EmptyMap
           /\ active_monitoring_tasks' = EmptyMap
           /\ monitoring_loop_tasks' = EmptyMap
           /\ ReleasedBy(ArbCallback)'
       /\ market_view_shutdown =>
           /\ active_sessions' = EmptyMap
           /\ active_tasks' = EmptyMap
           /\ market_view_loop_tasks' = EmptyMap
           /\ ReleasedBy(MvCallback)']_vars

BestBid == CHOOSE b \in Bids : \A other \in Bids : other <= b
BestAsk == CHOOSE a \in Asks : \A other \in Asks : other >= a

\* C18: the quote consolidate_bbo returns has mid = (bestBid + bestAsk) / 2,
\* spreadAbs = bestAsk - bestBid and spreadPct = spreadAbs / bestBid * 100,
\* and a crossed or locked market is returned with a non-positive spread.
C18_MidAndSpreadsDerived ==
    (CbboReturned /\ Len(arg_market_data) >= 1) =>
        /\ ret.val.raised = "none"
        /\ ret.val.mid_price_x2 = BestBid + BestAsk
        /\ ret.val.spread_absolute = BestAsk - BestBid
        /\ ret.val.spread_percentage.den > 0
        /\ ret.val.spread_percentage.num * BestBid
              = (BestAsk - BestBid) * 100 * ret.val.spread_percentage.den
        /\ BestAsk <= BestBid =>
               ret.val.spread_absolute <= 0 /\ ret.val.spread_percentage.num <= 0

\* C18 witness: a crossed market (one exchange bids above another's ask)
\* came back as a quote with a negative spread.
C18_Witness ==
    /\ CbboReturned /\ Len(arg_market_data) >= 2
    /\ ret.val.raised = "none"
    /\ ret.val.best_ask_price < ret.val.best_bid_price
    /\ ret.val.spread_absolute < 0
    /\ ret.val.best_bid_exchange # ret.val.best_ask_exchange

\* C19: two consolidate_bbo calls on an unchanged snapshot map return
\* quotes equal in every field, the time of computation included, and the
\* map is left as it was.
C19_ConsolidateIdempotent ==
    [][(CallConsolidate \/ CallConsolidateAgain) =>
          /\ arg_market_data' = arg_market_data
          /\ ret'.fn = "consolidate_bbo again" => ret'.val = ret'.first]_vars

Answered(tickers) == {e \in SysExchanges : tickers[e] # << >>}
\* C20: get_current_cbbo returns a quote of the tickers that answered,
\* with or without a session, and leaves the session records, the loop
\* tasks, the sessions' last quotes, the caches, the subscriptions and the
\* cooldowns as they were.
C20_CurrentCbboTouchesNothing ==
    [][\A q \in TickerInputs :
          call_get_current_cbbo(BTC, <<"binance", "okx">>, q) =>
              /\ UNCHANGED <<arbSess, arbOut, mvSess, caches, wsSubs, wsFlags,
                             mv_notifications>>
              /\ ret'.val.raised = "none" <=> Answered(q) # {}
              /\ ret'.val.raised = "none" =>
                     /\ ret'.val.best_bid_exchange \in Answered(q)
                     /\ ret'.val.best_ask_exchange \in Answered(q)
                     /\ \A e \in Answered(q) :
                            /\ q[e][1] <= ret'.val.best_bid_price
                            /\ q[e][2] >= ret'.val.best_ask_price]_vars

\* C20 witness: the quote of okx alone was returned while a session on the
\* symbol keeps the last quote its loop stored from both exchanges, and a
\* cooldown is held.
C20_Witness ==
    /\ ret.fn = "get_current_cbbo"
    /\ ret.val.raised = "none"
    /\ ret.val.best_bid_exchange = "okx"
    /\ 2 \in DOMAIN active_sessions
    /\ active_sessions[2].last_cbbo # None
    /\ active_sessions[2].last_cbbo[1].best_bid_exchange = "binance"
    /\ alert_cooldowns # EmptyMap

\* ===================================================== claims C21 .. C30
AttemptFailed == start_pc = "reconnecting" /\ reconnect(FALSE)
\* C21: a transport error starts reconnect attempts 1..max_reconnect_attempts;
\* a failed attempt below the maximum is followed by the next attempt, the
\* transport switches to polling only when max_reconnect_attempts attempts
\* have failed, and the counter never exceeds the maximum.
C21_PollingOnlyAfterAllAttempts ==
    /\ [](reconnect_count <= max_reconnect_attempts)
    /\ [][/\ (~use_polling /\ use_polling' /\ start_pc # "idle")
               => reconnect_count' >= max_reconnect_attempts
          /\ (AttemptFailed /\ reconnect_count < max_reconnect_attempts)
               => start_pc' \in {"recv", "reconnecting"}]_vars

\* Two owners subscribing over a transport that connects, fails and
\* reconnects before the handlers run.
InitPush == InitFn /\ \E n \in 1..MaxAttempts : InitSys(n)
NextPush ==
    \/ \E ok \in BOOLEAN : manager_connect(ok)
    \/ start
    \/ \E closed \in BOOLEAN : recv_error(closed)
    \/ \E ok \in BOOLEAN : reconnect(ok)
    \/ BotRunning /\ \E o \in Owners : start_monitoring(ConfigA(o))
    \/ BotRunning /\ \E o \in Owners : stop_monitoring(o)
    \/ \E k \in BtcKeys : poll_worker(k, QuoteOf(k[1]))
SpecPush == InitPush /\ [][NextPush]_vars

\* The callbacks registered for a key in a subscriptions map.
CallbacksOf(subs, k) == IF k \in DOMAIN subs THEN subs[k] ELSE << >>
\* A step in which key k gains a subscriber.
Grew(k) == Len(CallbacksOf(subscriptions', k)) > Len(CallbacksOf(subscriptions, k))
SubscribeAppends ==
    \A k \in Keys : Grew(k) =>
        \E cb \in {ArbCallback, MvCallback} :
            CallbacksOf(subscriptions', k) = Append(CallbacksOf(subscriptions, k), cb)
OnePollingTaskPerKey ==
    \A k \in Keys : (Grew(k) /\ k \in DOMAIN polling_tasks) =>
        /\ k \in DOMAIN polling_tasks'
        /\ polling_tasks'[k] = polling_tasks[k]
MessageOnlyForFirstSubscriber ==
    \A k \in Keys : (Grew(k) /\ ~use_polling /\ websocket = "open") =>
        (SubscriptionMessage(k) \in DOMAIN ws_sent' <=> k \notin DOMAIN subscriptions)
\* C22: subscribe appends the callback to the key's list and only the first
\* subscriber of a key starts its transport: a later subscriber of a key that
\* has a polling task leaves that task alone, and in push mode a subscribe
\* message for the key is sent for its first subscriber and for no later one.
C22_TransportStartedByFirstSubscriber ==
    [][SubscribeAppends /\ OnePollingTaskPerKey /\ MessageOnlyForFirstSubscriber]_vars

\* A step in which key k loses subscribers.
Shrunk(k) == Len(CallbacksOf(subscriptions', k)) < Len(CallbacksOf(subscriptions, k))
\* The message the stop of a push subscription is described to send.
UnsubscribeMessage(k) ==
    [action |-> "unsubscribe", exchange |-> k[1], symbol |-> k[2], type |-> "ticker"]
\* C23: an unsubscribe takes one callback off the key's list; when the list
\* becomes empty the key's polling task is cancelled (and polls no more), and
\* in push mode an unsubscribe message for the key is sent.
C23_UnsubscribeStopsTransportAtZero ==
    /\ [](\A k \in DOMAIN polling_tasks :
            polling_tasks[k] = "running" => k \in DOMAIN subscriptions)
    /\ [][\A k \in Keys : Shrunk(k) =>
            /\ Len(CallbacksOf(subscriptions', k)) = Len(CallbacksOf(subscriptions, k)) - 1
            /\ CallbacksOf(subscriptions', k) = << >> =>
                 /\ k \notin DOMAIN polling_tasks'
                 /\ (~use_polling /\ websocket = "open") =>
                        UnsubscribeMessage(k) \in DOMAIN ws_sent']_vars

\* ------------------------------------- the fan-out of one update, in detail
\* A subscriber outside the two services whose callback raises.
RaisingCallback == "callback that raises"

NotifyState ==
    [arb |-> arb_market_data_cache, mv |-> mv_market_data_cache, invoked |-> << >>]

\* Mutant: the services' callbacks update the bid of the entry they hold and
\* keep its ask.
call_callbackMerge(st, callback, md) ==
    LET st1 == [st EXCEPT !.invoked = Append(@, callback)]
        held(cache) == SelectSeq(cache[md.symbol], LAMBDA e : e.exchange = md.exchange)
        merged(cache) == IF held(cache) = << >> THEN md
                         ELSE [md EXCEPT !.ask_price = held(cache)[1].ask_price]
    IN IF callback = ArbCallback THEN [st1 EXCEPT !.arb = CachePut(@, merged(st.arb))]
       ELSE IF callback = MvCallback THEN [st1 EXCEPT !.mv = CachePut(@, merged(st.mv))]
       ELSE st1
\* One callback invoked with an update (lines 274-278): the services' callbacks
\* store it (arbitrage_service.py 332-351, market_view_service.py 430-449).
call_callback(st, callback, md) ==
    LET st1 == [st EXCEPT !.invoked = Append(@, callback)]
    IN IF callback = ArbCallback THEN [st1 EXCEPT !.arb = CachePut(@, md)]
       ELSE IF callback = MvCallback THEN [st1 EXCEPT !.mv = CachePut(@, md)]
       ELSE st1

\* Mutant: the exception of a callback leaves the for loop.
RestAfterUncaught(callback, rest) == IF callback = RaisingCallback THEN << >> ELSE rest
\* except Exception inside the for loop (lines 279-284): the exception of a
\* callback is logged and the loop goes on with the callbacks after it.
RestAfter(callback, rest) == rest

\* _notify_callbacks (lines 266-284), callback by callback.
RECURSIVE notify_each(_, _, _)
notify_each(st, callbacks, md) ==
    IF callbacks = << >> THEN st
    ELSE notify_each(call_callback(st, Head(callbacks), md),
                     RestAfter(Head(callbacks), Tail(callbacks)), md)

\* The transport stamps the updates of a key 1, 2, ...; the stamp travels in
\* the snapshot's timestamp.
Deliver(k, q) ==
    /\ update_seq[k] < MaxUpdates
    /\ update_seq' = [update_seq EXCEPT ![k] = @ + 1]
    /\ LET st == notify_each(NotifyState, CallbacksOf(subscriptions, k),
                             TimedSnapshot(k[2], k[1], q, update_seq[k] + 1))
       IN /\ arb_market_data_cache' = st.arb
          /\ mv_market_data_cache' = st.mv
          /\ invoked' = st.invoked

\* start(): one well-formed message received and handled (lines 360-361,
\* 286-301), the update numbered.
recv_update(k, q) ==
    /\ start_pc = "recv"
    /\ is_running /\ is_connected
    /\ Deliver(k, q)
    /\ UNCHANGED <<arg_raw, arg_market_data, arg_threshold, arg_session, start_call, arg_data, pacing, inbound, request, ret>>
    /\ UNCHANGED <<wsFlags, wsSubs, arbSess, arbOut, mvSess, mv_notifications, now>>

\* One turn of poll_worker (lines 232-254) that gets a ticker, the update
\* numbered.
poll_update(k, q) ==
    /\ k \in DOMAIN polling_tasks
    /\ polling_tasks[k] = "running"
    /\ is_running /\ k \in DOMAIN subscriptions
    /\ Deliver(k, q)
    /\ UNCHANGED <<arg_raw, arg_market_data, arg_threshold, arg_session, start_call, arg_data, pacing, inbound, request, ret>>
    /\ UNCHANGED <<wsFlags, wsSubs, arbSess, arbOut, mvSess, mv_notifications, now>>

\* A caller registers the raising callback (subscribe_to_market_data, lines
\* 439-461).
subscribe_raising(k) ==
    /\ CanSubscribe(<<k>>)
    /\ SetStreamState(subscribe_to_market_data(StreamState, k, RaisingCallback))
    /\ UNCHANGED <<fnVars, wsFlags, caches, arbSess, arbOut, mvSess, mv_notifications, now>>

\* The transport with numbered updates, a service and a raising subscriber.
InitFanout == InitFn /\ InitSys(1)
NextFanout ==
    \/ \E ok \in BOOLEAN : manager_connect(ok)
    \/ start
    \/ \E k \in BtcKeys : recv_update(k, QuoteOf(k[1]))
    \/ recv_error(TRUE)
    \/ \E ok \in BOOLEAN : reconnect(ok)
    \/ \E k \in BtcKeys : poll_update(k, QuoteOf(k[1]))
    \/ start_monitoring(ConfigA(1))
    \/ stop_monitoring(1)
    \/ subscribe_raising(<<"binance", BTC>>)
SpecFanout == InitFanout /\ [][NextFanout]_vars

\* The stamp of the update a cache holds for key k (0: none yet).
StampIn(cache, k) ==
    LET entries == cache[k[2]]
        at == {i \in 1..Len(entries) : entries[i].exchange = k[1]}
    IN IF at = {} THEN 0 ELSE entries[CHOOSE i \in at : TRUE].timestamp
\* The cache a service's callback writes.
CacheOf(callback) ==
    IF callback = ArbCallback THEN arb_market_data_cache ELSE mv_market_data_cache
ServiceCallbacks == {ArbCallback, MvCallback}
Registered(k) ==
    {CallbacksOf(subscriptions, k)[i] : i \in 1..Len(CallbacksOf(subscriptions, k))}
\* C24: the updates of a key reach each of its callbacks in the order the
\* transport produced them: what a callback holds for a key never goes back
\* to an earlier update, and when update n is produced every callback
\* registered for the key observes update n in that step.
C24_UpdatesDeliveredInOrder ==
    [][\A k \in Keys : \A cb \in ServiceCallbacks :
          /\ StampIn(CacheOf(cb), k)' >= StampIn(CacheOf(cb), k)
          /\ (update_seq'[k] # update_seq[k] /\ cb \in Registered(k)) =>
                 /\ StampIn(CacheOf(cb), k) < update_seq'[k]
                 /\ StampIn(CacheOf(cb), k)' = update_seq'[k]]_vars
C24_Witness ==
    \E k \in Keys : /\ update_seq[k] = 2
                    /\ StampIn(arb_market_data_cache, k) = 2
                    /\ \E j \in Keys \ {k} : update_seq[j] = 1

\* C25: an update is fanned out to every callback registered for its key, in
\* registration order, whether or not one of them raises; the polling task of
\* the key and the receive loop go on.
C25_RaisingCallbackIsolated ==
    [][\A k \in Keys : update_seq'[k] # update_seq[k] =>
          /\ invoked' = CallbacksOf(subscriptions, k)
          /\ \A cb \in ServiceCallbacks \cap Registered(k) :
                 StampIn(CacheOf(cb), k)' = update_seq'[k]
          /\ start_pc' = start_pc
          /\ polling_tasks' = polling_tasks]_vars
C25_Witness ==
    /\ Len(invoked) = 2
    /\ invoked[1] = RaisingCallback
    /\ invoked[2] \in ServiceCallbacks
    /\ StampIn(CacheOf(invoked[2]), <<"binance", BTC>>) = update_seq[<<"binance", BTC>>]
    /\ update_seq[<<"binance", BTC>>] > 0

\* ------------------------------------------------ inbound push messages
\* A JSON value of a price or size field: a number (NaN included, which
\* json.loads accepts), or a string float() cannot convert.
JsonNumber(x) == [numeric |-> TRUE, f |-> x]
JsonText == [numeric |-> FALSE, f |-> Float(0)]

\* data.get(name, data.get(alias, 0))
GetEither(data, name, alias) ==
    IF name \in DOMAIN data THEN data[name]
    ELSE IF alias \in DOMAIN data THEN data[alias]
    ELSE JsonNumber(Float(0))
\* data.get(name, '')
GetText(data, name) == IF name \in DOMAIN data THEN data[name] ELSE ""

\* _parse_websocket_data (lines 303-345): the snapshot, or None when symbol or
\* exchange is missing or when float() or MarketData raises.
parse_websocket_data(data) ==
    LET symbol == GetText(data, "symbol")
        exchange == GetText(data, "exchange")
        bid_price == GetEither(data, "bid", "bestBid")
        ask_price == GetEither(data, "ask", "bestAsk")
        bid_size == GetEither(data, "bidSize", "bestBidSize")
        ask_size == GetEither(data, "askSize", "bestAskSize")
        md == MarketData(symbol, exchange, bid_price.f, bid_size.f, ask_price.f, ask_size.f)
    IN IF symbol = "" \/ exchange = "" THEN None
       ELSE IF \E x \in {bid_price, ask_price, bid_size, ask_size} : ~x.numeric THEN None
       ELSE IF md.raised # "none" THEN None
       ELSE Some(md)

\* _handle_websocket_message (lines 286-301): json.loads, the parse, and the
\* callbacks of the snapshot's key; every exception is logged.
handle_websocket_message(message) ==
    LET parsed == IF message.json THEN parse_websocket_data(message.data) ELSE None
    IN IF parsed = None
       THEN /\ invoked' = << >>
            /\ UNCHANGED caches
       ELSE LET md == parsed[1]
                k == Key(md.exchange, md.symbol)
                st == notify_each(NotifyState, CallbacksOf(subscriptions, k),
                          TimedSnapshot(md.symbol, md.exchange,
                                        <<md.bid_price, md.ask_price>>, now))
            IN /\ arb_market_data_cache' = st.arb
               /\ mv_market_data_cache' = st.mv
               /\ invoked' = st.invoked

\* start(): recv() returns a message and it is handled (lines 360-361).
recv_raw(message) ==
    /\ start_pc = "recv"
    /\ is_running /\ is_connected
    /\ inbound.n < MaxUpdates
    /\ inbound' = [n |-> inbound.n + 1, json |-> message.json, data |-> message.data]
    /\ handle_websocket_message(message)
    /\ UNCHANGED <<arg_raw, arg_market_data, arg_threshold, arg_session, start_call, arg_data, pacing, request,
                   update_seq, ret>>
    /\ UNCHANGED <<wsFlags, wsSubs, arbSess, arbOut, mvSess, mv_notifications, now>>

One == JsonNumber(Float(1))
Two == JsonNumber(Float(2))
Ticker(bid, ask, bid_size, ask_size) ==
    [symbol |-> BTC, exchange |-> "binance", bid |-> bid, ask |-> ask,
     bidSize |-> bid_size, askSize |-> ask_size]
\* The payloads the socket delivers: well formed (under both spellings),
\* without symbol, without exchange, without sizes, crossed, with a text for
\* a price, and with NaN for a price or a size.
InboundData ==
    {Ticker(One, Two, One, One),
     [symbol |-> BTC, exchange |-> "binance", bestBid |-> One, bestAsk |-> Two,
      bestBidSize |-> One, bestAskSize |-> One],
     [exchange |-> "binance", bid |-> One, ask |-> Two, bidSize |-> One, askSize |-> One],
     [symbol |-> BTC, bid |-> One, ask |-> Two, bidSize |-> One, askSize |-> One],
     [symbol |-> BTC, exchange |-> "binance", bid |-> One, ask |-> Two],
     Ticker(Two, One, One, One),
     Ticker(JsonText, Two, One, One),
     Ticker(JsonNumber(NaN), Two, One, One),
     Ticker(One, Two, JsonNumber(NaN), One)}
InboundMessages ==
    {[json |-> TRUE, data |-> x] : x \in InboundData}
        \cup {[json |-> FALSE, data |-> [symbol |-> ""]]}

\* The receive loop fed with arbitrary messages while a service and a raising
\* subscriber are registered.
InitInbound == InitFn /\ InitSys(1)
NextInbound ==
    \/ manager_connect(TRUE)
    \/ start
    \/ \E m \in InboundMessages : recv_raw(m)
    \/ start_monitoring(ConfigA(1))
    \/ stop_monitoring(1)
    \/ subscribe_raising(<<"binance", BTC>>)
SpecInbound == InitInbound /\ [][NextInbound]_vars

\* The fields of a message as the MarketSnapshot invariant reads them.
WellFormed(m) ==
    /\ m.json
    /\ GetText(m.data, "symbol") # "" /\ GetText(m.data, "exchange") # ""
    /\ \A f \in {<<"bid", "bestBid">>, <<"ask", "bestAsk">>, <<"bidSize", "bestBidSize">>,
                 <<"askSize", "bestAskSize">>} : GetEither(m.data, f[1], f[2]).numeric
    /\ SnapshotClauses(GetEither(m.data, "bid", "bestBid").f,
                       GetEither(m.data, "bidSize", "bestBidSize").f,
                       GetEither(m.data, "ask", "bestAsk").f,
                       GetEither(m.data, "askSize", "bestAskSize").f)
\* C26: a malformed push message invokes no callback and changes no cache, a
\* well-formed one reaches every callback of its key, and the receive loop
\* goes on after either.
C26_MalformedMessageDropped ==
    [][inbound'.n # inbound.n =>
          /\ start_pc' = "recv"
          /\ IF WellFormed(inbound')
             THEN invoked' = CallbacksOf(subscriptions,
                                 Key(inbound'.data.exchange, inbound'.data.symbol))
             ELSE invoked' = << >> /\ UNCHANGED caches]_vars

\* ------------------------------------------ freshness in the arbitrage scan
\* A session at the default update interval (config.py line 36).
ConfigC(chat_id) == MonitoringConfig(chat_id, <<BTC>>, <<"binance", "okx">>, 50, 5)

\* The arbitrage loop of a short-interval session over polled snapshots that
\* age with the clock.
InitFresh == InitFn /\ InitSys(websocket_max_reconnect_attempts)
NextFresh ==
    \/ manager_connect(FALSE)
    \/ start
    \/ \E k \in BtcKeys : poll_worker(k, QuoteOf(k[1]))
    \/ BotRunning /\ start_monitoring(ConfigC(1))
    \/ \E t \in 1..MaxTasks : monitoring_loop(t)
    \/ Tick(MaxTime)
SpecFresh == InitFresh /\ [][NextFresh]_vars

\* The cached snapshot of a symbol on an exchange a signal was computed from.
SnapshotsOf(symbol, exchange) ==
    {arb_market_data_cache[symbol][i] : i \in
        {j \in 1..Len(arb_market_data_cache[symbol]) :
            arb_market_data_cache[symbol][j].exchange = exchange}}
\* C27: a signal an arbitrage loop emits is computed from snapshots no older
\* than twice the update interval of its session.
C27_ScanUsesOnlyFreshSnapshots ==
    [][\A t \in DOMAIN monitoring_loop_tasks :
          (/\ t \in DOMAIN monitoring_loop_tasks'
           /\ monitoring_loop_tasks'[t].until # monitoring_loop_tasks[t].until
           /\ Len(opportunity_history') > Len(opportunity_history)) =>
              \A i \in (Len(opportunity_history) + 1)..Len(opportunity_history') :
                  LET o == opportunity_history'[i]
                  IN \A e \in {o.buy_exchange, o.sell_exchange} :
                         \A data \in SnapshotsOf(o.symbol, e) :
                             now - data.timestamp <=
                                 2 * monitoring_loop_tasks[t].monitoring_config.update_interval]_vars

\* ---------------------------------------------------------- request pacing
PacingRest == <<arg_raw, arg_market_data, arg_threshold, arg_session, arg_data, request, start_call,
                inbound, invoked, update_seq, ret>>

\* self.session.request is reached (line 145) right after _rate_limit has set
\* last_request_time (line 106).
Issue(p, c) ==
    [p EXCEPT !.last_request_time = p.time,
              !.callers[c].pc = "requesting",
              !.issued = Append(@, p.time)]

\* A caller enters _make_request and _rate_limit (lines 131-132, 97-106): it
\* goes on at once, or sleeps for the rest of the delay.
rate_limit(c) ==
    /\ pacing.callers[c].pc = "idle"
    /\ Len(pacing.issued) + Cardinality({d \in Callers : pacing.callers[d].pc = "sleeping"})
           < MaxRequests
    /\ LET time_since_last == pacing.time - pacing.last_request_time
       IN pacing' =
              IF time_since_last < rate_limit_delay
              THEN [pacing EXCEPT !.callers[c] =
                       [pc |-> "sleeping",
                        wake |-> pacing.time + (rate_limit_delay - time_since_last)]]
              ELSE Issue(pacing, c)
    /\ UNCHANGED PacingRest
    /\ UNCHANGED sysVars

\* asyncio.sleep(sleep_time) is over (line 104) and the caller goes on.
rate_limit_resume(c) ==
    /\ pacing.callers[c].pc = "sleeping"
    /\ pacing.time >= pacing.callers[c].wake
    /\ pacing' = Issue(pacing, c)
    /\ UNCHANGED PacingRest
    /\ UNCHANGED sysVars

\* The response arrives and _make_request returns.
request_returns(c) ==
    /\ pacing.callers[c].pc = "requesting"
    /\ pacing' = [pacing EXCEPT !.callers[c].pc = "idle"]
    /\ UNCHANGED PacingRest
    /\ UNCHANGED sysVars

\* time.time() advances; a sleeper is woken when its time has come.
PacingTick ==
    /\ pacing.time < MaxClock
    /\ \A c \in Callers : pacing.callers[c].pc = "sleeping" =>
           pacing.time < pacing.callers[c].wake
    /\ pacing' = [pacing EXCEPT !.time = @ + 1]
    /\ UNCHANGED PacingRest
    /\ UNCHANGED sysVars

\* Concurrent calls on one client.
InitPacing == InitFn /\ InitSys(websocket_max_reconnect_attempts)
NextPacing ==
    \/ \E c \in Callers : rate_limit(c)
    \/ \E c \in Callers : rate_limit_resume(c)
    \/ \E c \in Callers : request_returns(c)
    \/ PacingTick
SpecPacing == InitPacing /\ [][NextPacing]_vars

\* C28: any two HTTP requests of one client are issued at least
\* rate_limit_delay apart, however the calls interleave.
C28_RequestsPacedUnderConcurrency ==
    \A i, j \in 1..Len(pacing.issued) :
        i < j => pacing.issued[j] - pacing.issued[i] >= rate_limit_delay

\* --------------------------- GoMarketClient._parse_ticker_data (361-452)
\* Prices and sizes of a parsed ticker are kept in ten-thousandths, so that
\* last * (1 - 0.0001) and (bid + ask) / 2 are exact.
\* 1 / spread_ratio (line 410).
Scale == 10000
Scaled(x) == IF x.nan THEN NaN ELSE Float(x.v * Scale)

\* field_mappings (lines 374-380)
field_mappings ==
    [bid |-> <<"bid", "bestBid", "bidPrice", "buy">>,
     ask |-> <<"ask", "bestAsk", "askPrice", "sell">>,
     bid_size |-> <<"bidSize", "bestBidSize", "bidQty", "buySize">>,
     ask_size |-> <<"askSize", "bestAskSize", "askQty", "sellSize">>,
     last |-> <<"last", "lastPrice", "price", "close">>]

\* extract_value (lines 382-393): the first name present with a number, or
\* with a string float() converts; 0.0 when there is none.
RECURSIVE extract_value(_, _)
extract_value(data, field_names) ==
    IF field_names = << >> THEN Float(0)
    ELSE IF Head(field_names) \in DOMAIN data /\ data[Head(field_names)].numeric
    THEN Scaled(data[Head(field_names)].f)
    ELSE extract_value(data, Tail(field_names))

\* _parse_ticker_data (lines 361-452): the MarketData, or GoMarketAPIError
\* when its constructor raises.
parse_ticker_data(data, exchange, symbol) ==
    LET bid0 == extract_value(data, field_mappings.bid)
        ask0 == extract_value(data, field_mappings.ask)
        bid_size0 == extract_value(data, field_mappings.bid_size)
        ask_size0 == extract_value(data, field_mappings.ask_size)
        last0 == extract_value(data, field_mappings.last)
        last_price == IF last0 = Float(0) /\ FGt(bid0, Float(0)) /\ FGt(ask0, Float(0))
                      THEN Float((bid0.v + ask0.v) \div 2)
                      ELSE last0
        derive == (FLe(bid0, Float(0)) \/ FLe(ask0, Float(0))) /\ FGt(last_price, Float(0))
        bid_price == IF derive
                     THEN Float((last_price.v \div Scale) * (Scale - 1))
                     ELSE bid0
        ask_price == IF derive
                     THEN Float((last_price.v \div Scale) * (Scale + 1))
                     ELSE ask0
        bid_size == IF FLe(bid_size0, Float(0)) THEN Float(Scale) ELSE bid_size0
        ask_size == IF FLe(ask_size0, Float(0)) THEN Float(Scale) ELSE ask_size0
        md == MarketData(symbol, exchange, bid_price, bid_size, ask_price, ask_size)
    IN IF md.raised # "none"
       THEN [raised |-> "GoMarketAPIError"]
       ELSE md

CallParseTicker ==
    /\ ret.fn = "none"
    /\ ret' = [fn |-> "_parse_ticker_data",
               val |-> parse_ticker_data(arg_data, "binance", BTC)]
    /\ UNCHANGED fnArgs
    /\ UNCHANGED sysVars

\* Payload parts: which spellings are present, and with what.
Zero == JsonNumber(Float(0))
BidParts ==
    {EmptyMap, [bid |-> One], [bid |-> JsonText, bestBid |-> One],
     [bestBid |-> Two, bidPrice |-> One], [bidPrice |-> One, buy |-> Two], [buy |-> One],
     [bid |-> Zero, bestBid |-> One], [bid |-> JsonNumber(NaN)]}
AskParts ==
    {EmptyMap, [ask |-> Two], [ask |-> JsonText, sell |-> Two],
     [bestAsk |-> One, askPrice |-> Two], [sell |-> JsonNumber(Float(3))]}
SizeParts ==
    {EmptyMap, [bidSize |-> Zero, askSize |-> JsonNumber(Float(-1))],
     [bestBidSize |-> Two, askQty |-> Two], [bidSize |-> JsonNumber(NaN), askSize |-> One]}
LastParts ==
    {EmptyMap, [last |-> Two], [price |-> One, close |-> Two], [last |-> Zero, lastPrice |-> Two]}
TickerPayloads ==
    {b @@ a @@ z @@ l : b \in BidParts, a \in AskParts, z \in SizeParts, l \in LastParts}

InitTicker ==
    /\ arg_data \in TickerPayloads
    /\ arg_raw = NoRaw
    /\ arg_market_data = << >>
    /\ arg_threshold = 0
    /\ arg_session = NoSession
    /\ request = NoRequest
    /\ start_call = NoStartCall
    /\ pacing = NoPacing
    /\ inbound = NoInbound
    /\ invoked = << >>
    /\ update_seq = [k \in Keys |-> 0]
    /\ ret = NotCalled
    /\ InitSys(websocket_max_reconnect_attempts)
NextTicker == CallParseTicker
SpecTicker == InitTicker /\ [][NextTicker]_vars

\* The value of the first spelling, in priority order, that is present with a
\* numeric value (absent: there is none).
Numeric(data, names) == {i \in 1..Len(names) : names[i] \in DOMAIN data /\ data[names[i]].numeric}
FirstNumeric(data, names) ==
    IF Numeric(data, names) = {} THEN None
    ELSE Some(Scaled(data[names[CHOOSE i \in Numeric(data, names) :
                                     \A j \in Numeric(data, names) : i <= j]].f))
Positive(x) == x # None /\ FGt(x[1], Float(0))
\* C29: the parsed ticker takes each field from the first numeric spelling,
\* replaces a missing or non-positive size by 1.0, derives bid and ask from a
\* positive last price when one of them is missing, and is a snapshot that
\* satisfies the MarketSnapshot invariant whenever it is not an API error.
C29_TolerantTickerParsing ==
    ret.fn = "_parse_ticker_data" =>
        LET bid == FirstNumeric(arg_data, field_mappings.bid)
            ask == FirstNumeric(arg_data, field_mappings.ask)
            bid_size == FirstNumeric(arg_data, field_mappings.bid_size)
            ask_size == FirstNumeric(arg_data, field_mappings.ask_size)
            last == FirstNumeric(arg_data, field_mappings.last)
            md == ret.val
        IN \/ md.raised = "GoMarketAPIError"
           \/ /\ md.raised = "none"
              /\ SnapshotClauses(md.bid_price, md.bid_size, md.ask_price, md.ask_size)
              /\ md.bid_size = IF Positive(bid_size) THEN bid_size[1] ELSE Float(Scale)
              /\ md.ask_size = IF Positive(ask_size) THEN ask_size[1] ELSE Float(Scale)
              /\ IF (bid = None \/ ask = None) /\ Positive(last)
                 THEN /\ md.bid_price = Float((last[1].v \div Scale) * (Scale - 1))
                      /\ md.ask_price = Float((last[1].v \div Scale) * (Scale + 1))
                 ELSE (bid # None /\ ask # None) =>
                          \/ md.bid_price = bid[1] /\ md.ask_price = ask[1]
                          \/ ~Positive(bid) \/ ~Positive(ask)

\* ------------------------------------------------- the opportunity history
\* timedelta(hours=24) in cleanup_expired_data (arbitrage_service.py line 556)
retention_hours == 24

\* The clock over days.
LongTick ==
    /\ now + LongStep <= LongTime
    /\ now' = now + LongStep
    /\ UNCHANGED <<fnVars, wsFlags, wsSubs, caches, arbSess, arbOut, mvSess,
                   mv_notifications>>

\* The running service over days: the transport, the polling tasks, the
\* sessions and their loops are everything that runs; nothing in the
\* repository calls cleanup_expired_data (lines 551-585).
InitHistory == InitFn /\ InitSys(websocket_max_reconnect_attempts)
NextHistory ==
    \/ manager_connect(FALSE)
    \/ start
    \/ \E k \in BtcKeys : poll_worker(k, QuoteOf(k[1]))
    \/ BotRunning /\ start_monitoring(ConfigA(1))
    \/ BotRunning /\ stop_monitoring(1)
    \/ \E t \in 1..MaxTasks : monitoring_loop(t)
    \/ LongTick
SpecHistory == InitHistory /\ [][NextHistory]_vars

\* C30: the history grows by the accepted signals, in acceptance order, and
\* no entry is older than 24 hours plus one cleanup period.
C30_HistoryBoundedByAge ==
    /\ [](\A i \in 1..Len(opportunity_history) :
             now - opportunity_history[i].timestamp
                 <= retention_hours * 3600 + CleanupPeriod)
    /\ [][\/ opportunity_history' = opportunity_history
          \/ /\ Len(opportunity_history') > Len(opportunity_history)
             /\ SubSeq(opportunity_history', 1, Len(opportunity_history)) = opportunity_history
             /\ \A i \in (Len(opportunity_history) + 1)..Len(opportunity_history') :
                    /\ opportunity_history'[i].timestamp = now
                    /\ \E n \in 1..Len(arb_notifications') :
                           arb_notifications'[n].opportunity = opportunity_history'[i]
          \/ \A i \in 1..Len(opportunity_history) \ 1..Len(opportunity_history') :
                 now - opportunity_history[i].timestamp > retention_hours * 3600]_vars

\* ===================================================== claims C31 .. C39
\* ------------------------------------------------ the caches, key by key
\* The polling transport with quotes that change from one update to the
\* next, an arbitrage session and a market view on the same pairs.
InitCache == InitFn /\ InitSys(1)
NextCache ==
    \/ manager_connect(FALSE)
    \/ start
    \/ \E k \in BtcKeys : \E q \in FeedQuotes : poll_update(k, q)
    \/ BotRunning /\ start_monitoring(ConfigA(1))
    \/ BotRunning /\ start_market_view(2, BTC, <<"binance", "okx">>, 5)
SpecCache == InitCache /\ [][NextCache]_vars

\* What a cache holds for key k: no entry or one.
EntryOf(cache, k) == SelectSeq(cache[k[2]], LAMBDA e : e.exchange = k[1])
\* The snapshots the transport can deliver as update n of key k.
Deliverable(k, n) == {TimedSnapshot(k[2], k[1], q, n) : q \in FeedQuotes}

\* C31: cache writes are latest-wins per key: when an update of key k is
\* delivered, each registered service holds for k that snapshot as a whole,
\* and what the caches hold for every other key is unchanged.
C31_CacheLatestWinsPerKey ==
    [][\A k \in Keys : update_seq'[k] # update_seq[k] =>
          \A cb \in ServiceCallbacks :
              /\ cb \in Registered(k) =>
                     /\ Len(EntryOf(CacheOf(cb), k)') = 1
                     /\ EntryOf(CacheOf(cb), k)'[1] \in Deliverable(k, update_seq'[k])
              /\ \A j \in Keys \ {k} :
                     EntryOf(CacheOf(cb), j)' = EntryOf(CacheOf(cb), j)]_vars
\* An entry overwritten by the second update of its key while the cache holds
\* the first update of another key.
C31_Witness ==
    \E k \in Keys : \E j \in Keys \ {k} :
        /\ update_seq[k] = 2 /\ update_seq[j] = 1
        /\ \A cb \in ServiceCallbacks :
               /\ StampIn(CacheOf(cb), k) = 2
               /\ StampIn(CacheOf(cb), j) = 1
               /\ EntryOf(CacheOf(cb), k)[1].bid_price # EntryOf(CacheOf(cb), j)[1].bid_price

\* ------------------------------------------------- ties in consolidate_bbo
\* The positions of the map that quote its highest bid, and its lowest ask.
MaxBidAt(m) == {i \in 1..Len(m) : \A j \in 1..Len(m) : m[j].bid_price <= m[i].bid_price}
MinAskAt(m) == {i \in 1..Len(m) : \A j \in 1..Len(m) : m[j].ask_price >= m[i].ask_price}
First(positions) == CHOOSE i \in positions : \A j \in positions : i <= j

\* C32: when several exchanges quote the same highest bid (lowest ask), the
\* consolidated quote names the first of them in the iteration order of the
\* map.
C32_TieGoesToFirstExchange ==
    (ret.fn = "consolidate_bbo" /\ ret.val.raised = "none") =>
        /\ ret.val.best_bid_exchange = arg_market_data[First(MaxBidAt(arg_market_data))].exchange
        /\ ret.val.best_ask_exchange = arg_market_data[First(MinAskAt(arg_market_data))].exchange
\* A later exchange ties with an earlier one on both sides, after a worse
\* quote at the head of the map.
C32_Witness ==
    /\ ret.fn = "consolidate_bbo" /\ ret.val.raised = "none"
    /\ Len(arg_market_data) = 3
    /\ MaxBidAt(arg_market_data) = {2, 3}
    /\ MinAskAt(arg_market_data) = {1, 3}
    /\ ret.val.best_bid_exchange = arg_market_data[2].exchange
    /\ ret.val.best_ask_exchange = arg_market_data[1].exchange

\* ------------------------------------------------- after a reconnection
\* _reconnect has connected again on the push transport.
Reconnected ==
    /\ start_pc = "reconnecting" /\ start_pc' # "reconnecting"
    /\ websocket' = "open" /\ is_connected' /\ ~use_polling'

\* C33: after a transport error and a successful reconnection streaming
\* resumes: a subscribe message has been sent for every key that has
\* subscribers and the receive loop of start() is running again, so that
\* inbound messages reach the callbacks.
C33_StreamingResumesAfterReconnect ==
    [][Reconnected =>
          /\ \A k \in DOMAIN subscriptions' :
                 SubscriptionMessage(k) \in DOMAIN ws_sent'
          /\ start_pc' = "recv"]_vars

\* --------------------------------------------- the polling tasks' lifetime
\* disconnect() (lines 124-137): the polling tasks are cancelled and stay in
\* polling_tasks, the socket is closed; the subscriptions are kept. The
\* client can then be connected and started again.
disconnect ==
    /\ start_pc = "returned"
    /\ is_running' = FALSE
    /\ polling_tasks' = [k \in DOMAIN polling_tasks |-> "done"]
    /\ websocket' = IF websocket = "open" THEN "closed" ELSE websocket
    /\ is_connected' = FALSE
    /\ start_pc' = "idle"
    /\ UNCHANGED <<use_polling, reconnect_count, max_reconnect_attempts>>
    /\ UNCHANGED <<subscriptions, active_streams, ws_sent>>
    /\ UNCHANGED <<fnVars, caches, arbSess, arbOut, mvSess, mv_notifications, now>>

\* The polling transport with subscriptions made before and after start(),
\* and restarts.
InitPolling == InitFn /\ InitSys(websocket_max_reconnect_attempts)
NextPolling ==
    \/ manager_connect(FALSE)
    \/ start
    \/ \E k \in BtcKeys : \E q \in FeedQuotes : poll_worker(k, q)
    \/ start_monitoring(ConfigA(1))
    \/ stop_monitoring(1)
    \/ disconnect
SpecPolling == InitPolling /\ [][NextPolling]_vars

\* C34: in polling mode, while the client is running, every key with at
\* least one subscriber has a live polling task.
C34_LivePollingTaskPerSubscribedKey ==
    \A k \in Keys :
        (use_polling /\ is_running /\ CallbacksOf(subscriptions, k) # << >>) =>
            /\ k \in DOMAIN polling_tasks
            /\ polling_tasks[k] = "running"

\* ----------------------------- start_monitoring, suspension by suspension
\* await self.websocket.send(...) (line 211) is where a subscribe call can
\* be suspended: on the push transport with an open socket.
SendSuspends == ~use_polling /\ websocket = "open"

\* start_monitoring for a new owner (lines 91-103) up to the send of its
\* first pair: the record and the task are registered, the callback of the
\* first pair is appended and its subscribe message is handed to the socket.
start_monitoring_call(monitoring_config) ==
    LET chat_id == monitoring_config.chat_id
        keys == SymbolKeys(monitoring_config.symbols, monitoring_config.exchanges)
    IN /\ start_call = NoStartCall
       /\ chat_id \notin DOMAIN monitoring_sessions
       /\ SendSuspends
       /\ \E t \in 1..MaxTasks : t \notin DOMAIN monitoring_loop_tasks
       /\ CanSubscribe(keys)
       /\ monitoring_sessions' = Put(monitoring_sessions, chat_id, monitoring_config)
       /\ LET task == NewTask(monitoring_loop_tasks)
          IN /\ monitoring_loop_tasks' =
                    Put(monitoring_loop_tasks, task, MonitoringLoopFrame(monitoring_config))
             /\ active_monitoring_tasks' = Put(active_monitoring_tasks, chat_id, task)
       /\ SetStreamState(subscribe(StreamState, keys[1], ArbCallback))
       /\ start_call' = [chat_id |-> chat_id, keys |-> keys, at |-> 1]
       /\ UNCHANGED <<arg_raw, arg_market_data, arg_threshold, arg_session, request,
                      arg_data, pacing, inbound, invoked, update_seq, ret>>
       /\ UNCHANGED <<wsFlags, caches, arbOut, mvSess, mv_notifications, now>>

\* The send returns: subscribe_to_market_data records the stream (line 450)
\* and _subscribe_to_symbols goes on with the next pair, up to its send, or
\* with all the pairs left when nothing suspends any more; then the call
\* returns.
start_monitoring_resume ==
    LET keys == start_call.keys
        at == start_call.at
        st == [StreamState EXCEPT !.active_streams = @ \cup {keys[at]}]
    IN /\ start_call # NoStartCall
       /\ IF at = Len(keys)
          THEN /\ SetStreamState(st)
               /\ start_call' = NoStartCall
          ELSE IF SendSuspends
          THEN /\ SetStreamState(subscribe(st, keys[at + 1], ArbCallback))
               /\ start_call' = [start_call EXCEPT !.at = at + 1]
          ELSE /\ SetStreamState(SubscribeAll(st, SubSeq(keys, at + 1, Len(keys)),
                                              ArbCallback))
               /\ start_call' = NoStartCall
       /\ UNCHANGED <<arg_raw, arg_market_data, arg_threshold, arg_session, request,
                      arg_data, pacing, inbound, invoked, update_seq, ret>>
       /\ UNCHANGED <<wsFlags, caches, arbSess, arbOut, mvSess, mv_notifications, now>>

\* One owner's start and stop calls on the push transport, start taken one
\* suspension at a time. stop_monitoring awaits nothing that suspends.
InitStartStop == InitFn /\ InitSys(1)
NextStartStop ==
    \/ manager_connect(TRUE)
    \/ start
    \/ recv_error(TRUE)
    \/ \E ok \in BOOLEAN : reconnect(ok)
    \/ start_monitoring_call(ConfigA(1))
    \/ start_monitoring_resume
    \/ stop_monitoring(1)
SpecStartStop == InitStartStop /\ [][NextStartStop]_vars

\* The keys on which the arbitrage service's callback is subscribed.
HeldKeys == {k \in Keys : ArbCallback \in Registered(k)}
\* C35: once the start and stop calls of the owner have returned, either the
\* session is fully registered (record, task and the subscriptions of all its
\* pairs) or nothing of it remains (no record, no task, no subscription).
C35_NoOrphanAfterStartAndStop ==
    start_call = NoStartCall =>
        \/ /\ monitoring_sessions = EmptyMap
           /\ active_monitoring_tasks = EmptyMap
           /\ HeldKeys = {}
        \/ /\ monitoring_sessions # EmptyMap
           /\ \A chat_id \in DOMAIN monitoring_sessions :
              /\ chat_id \in DOMAIN active_monitoring_tasks
              /\ KeysOfList(SymbolKeys(monitoring_sessions[chat_id].symbols,
                                       monitoring_sessions[chat_id].exchanges))
                     \subseteq HeldKeys

\* ------------------------------------- the pairs of a reconfigured session
\* The pairs of the configuration registered for an owner.
ConfiguredKeys(sessions, chat_id) ==
    KeysOfList(SymbolKeys(sessions[chat_id].symbols, sessions[chat_id].exchanges))
\* start_monitoring replaces the configuration of a registered owner by one
\* with other pairs.
Reconfigured(chat_id) ==
    /\ chat_id \in DOMAIN monitoring_sessions
    /\ chat_id \in DOMAIN monitoring_sessions'
    /\ ConfiguredKeys(monitoring_sessions', chat_id) # ConfiguredKeys(monitoring_sessions, chat_id)
Stopped(chat_id) ==
    /\ chat_id \in DOMAIN monitoring_sessions
    /\ chat_id \notin DOMAIN monitoring_sessions'

\* C36: a session holds subscriptions for the pairs of its current
\* configuration: a reconfiguring start leaves the pairs of the new
\* configuration subscribed, and after a stop no pair is left subscribed for
\* the service without a session that has it in its configuration.
C36_SubscriptionsFollowConfiguration ==
    /\ [][\A chat_id \in Owners : Reconfigured(chat_id) =>
              ConfiguredKeys(monitoring_sessions', chat_id) \subseteq HeldKeys']_vars
    /\ [][\A chat_id \in Owners : Stopped(chat_id) =>
              \A k \in HeldKeys' :
                  \E other \in DOMAIN monitoring_sessions' :
                      k \in ConfiguredKeys(monitoring_sessions', other)]_vars

\* ------------------------------------------- the cooldown and the owners
\* The loop of task t has made a turn: its next turn is set anew.
LoopTurn(t) ==
    /\ t \in DOMAIN monitoring_loop_tasks
    /\ t \in DOMAIN monitoring_loop_tasks'
    /\ monitoring_loop_tasks'[t].until # monitoring_loop_tasks[t].until
\* The latest accepted alerts include one to the owner for the key.
AlertedTo(notifications, chat_id, opportunity_key) ==
    \E n \in 1..Len(notifications) :
        /\ notifications[n].chat_id = chat_id
        /\ OpportunityKey(notifications[n].opportunity) = opportunity_key

\* C37: alert suppression does not cross sessions: for every opportunity the
\* turn of an owner's loop finds, the owner is notified of it, or it is under
\* the cooldown of an alert that went to that owner.
C37_CooldownDoesNotCrossSessions ==
    [][\A t \in 1..MaxTasks : LoopTurn(t) =>
          LET frame == monitoring_loop_tasks[t]
              opportunities == check_arbitrage_opportunities(frame.monitoring_config, 1)
          IN \A i \in 1..Len(opportunities) :
                 AlertedTo(arb_notifications', frame.chat_id,
                           OpportunityKey(opportunities[i]))]_vars

\* ------------------------------------------ the cooldown of one session
\* cleanup_expired_data (lines 551-585): the history of the last 24 hours,
\* the firing times of the last hour and the snapshots of the last 5 minutes
\* are kept.
cleanup_expired_data ==
    /\ opportunity_history' =
           SelectSeq(opportunity_history,
                     LAMBDA opp : opp.timestamp >= now - retention_hours * 3600)
    /\ alert_cooldowns' =
           [key \in {x \in DOMAIN alert_cooldowns : ~(now - alert_cooldowns[x] > 3600)} |->
               alert_cooldowns[key]]
    /\ arb_market_data_cache' =
           [symbol \in DOMAIN arb_market_data_cache |->
               SelectSeq(arb_market_data_cache[symbol],
                         LAMBDA market_data : is_fresh(market_data, 300))]
    /\ UNCHANGED <<arb_notifications, mv_market_data_cache>>
    /\ UNCHANGED <<fnVars, wsFlags, wsSubs, arbSess, mvSess, mv_notifications, now>>

\* One session and its loop over polled snapshots, with the clock in steps
\* of half a minute and of half a day, and cleanup passes.
InitCooldown == InitFn /\ InitSys(websocket_max_reconnect_attempts)
NextCooldown ==
    \/ manager_connect(FALSE)
    \/ start
    \/ \E k \in BtcKeys : poll_worker(k, QuoteOf(k[1]))
    \/ BotRunning /\ start_monitoring(ConfigA(1))
    \/ \E t \in 1..MaxTasks : monitoring_loop(t)
    \/ Tick(MaxTime)
    \/ LongTick
    \/ cleanup_expired_data
SpecCooldown == InitCooldown /\ [][NextCooldown]_vars

\* The opportunities the turn of task t finds in the state it starts from.
FoundBy(t) ==
    check_arbitrage_opportunities(monitoring_loop_tasks[t].monitoring_config, 1)
\* C38: a suppressed signal changes nothing: a turn whose opportunities are
\* all under cooldown leaves the firing times, the history and the
\* notifications as they were; an opportunity found 60 seconds or more after
\* the last accepted alert of its key is alerted again; and no step removes
\* or changes the firing time of a key that is under cooldown.
C38_SuppressedSignalChangesNothing ==
    /\ [][\A t \in 1..MaxTasks : LoopTurn(t) =>
              /\ (\A i \in 1..Len(FoundBy(t)) :
                      is_alert_cooldown_active(alert_cooldowns, OpportunityKey(FoundBy(t)[i])))
                     => UNCHANGED <<alert_cooldowns, opportunity_history, arb_notifications>>
              /\ \A i \in 1..Len(FoundBy(t)) :
                     LET key == OpportunityKey(FoundBy(t)[i])
                     IN (key \in DOMAIN alert_cooldowns
                            /\ now >= alert_cooldowns[key] + alert_cooldown_minutes * 60)
                        => /\ alert_cooldowns'[key] = now
                           /\ Len(opportunity_history') > Len(opportunity_history)
                           /\ AlertedTo(arb_notifications', monitoring_loop_tasks[t].chat_id, key)
                           /\ arb_notifications'[1].opportunity.timestamp = now]_vars
    /\ [][\A key \in DOMAIN alert_cooldowns :
              (is_alert_cooldown_active(alert_cooldowns, key) /\ now' = now) =>
                  /\ key \in DOMAIN alert_cooldowns'
                  /\ alert_cooldowns'[key] = alert_cooldowns[key]]_vars
\* The loop has made a turn half a minute after an accepted alert: the
\* opportunity is still there and the alert of time 0 is the only one.
C38_Witness ==
    \E t \in DOMAIN monitoring_loop_tasks :
        /\ now > 0
        /\ monitoring_loop_tasks[t].until = now + monitoring_loop_tasks[t].monitoring_config.update_interval
        /\ FoundBy(t) # << >>
        /\ \A i \in 1..Len(FoundBy(t)) :
               /\ is_alert_cooldown_active(alert_cooldowns, OpportunityKey(FoundBy(t)[i]))
               /\ alert_cooldowns[OpportunityKey(FoundBy(t)[i])] < now
        /\ Len(opportunity_history) = 1

\* ------------------------------------------ the invariants of a session
\* Patches for update_monitoring_config: values the constructor accepts and
\* values it rejects, one attribute at a time.
PatchInputs ==
    {[threshold_percentage |-> 100], [threshold_percentage |-> 0],
     [update_interval |-> 0], [symbols |-> << >>], [exchanges |-> << >>],
     [chat_id |-> 2]}

\* MonitoringConfig.__post_init__ (data_models.py lines 227-236)
MonitoringConfig__post_init__Raises(monitoring_config) ==
    \/ monitoring_config.symbols = << >>
    \/ monitoring_config.exchanges = << >>
    \/ monitoring_config.threshold_percentage <= 0
    \/ monitoring_config.update_interval <= 0

\* A session started, patched and stopped.
InitUpdate == InitFn /\ InitSys(websocket_max_reconnect_attempts)
NextUpdate ==
    \/ manager_connect(FALSE)
    \/ start
    \/ BotRunning /\ start_monitoring(ConfigA(1))
    \/ BotRunning /\ stop_monitoring(1)
    \/ BotRunning /\ \E u \in PatchInputs : update_monitoring_config(1, u)
SpecUpdate == InitUpdate /\ [][NextUpdate]_vars

\* C39: every registered session satisfies the invariants of its
\* construction: symbols and exchanges not empty, threshold and interval
\* positive, and the chat_id it is registered under.
C39_RegisteredSessionsAreValid ==
    \A chat_id \in DOMAIN monitoring_sessions :
        /\ ~MonitoringConfig__post_init__Raises(monitoring_sessions[chat_id])
        /\ monitoring_sessions[chat_id].chat_id = chat_id

====
